---------------------------- MODULE Spec2Model ----------------------------
(***************************************************************************)
(* Webhook event-processing pipeline of the Dodo Payments boilerplate:     *)
(* signature verification, event logging, event-type dispatch and          *)
(* reconciliation of customer / subscription / payment records.            *)
(*                                                                         *)
(* Every handleWebhook invocation is a process.  Its synchronous prefix    *)
(* (verify, JSON.parse) is one step; after that every awaited store or     *)
(* provider call is one atomic step, so concurrent invocations interleave  *)
(* exactly at the awaits of the code.                                      *)
(***************************************************************************)
EXTENDS Integers, Sequences, FiniteSets, TLC

VARIABLES
    webhookSecret,   \* config.dodo.webhookSecret (NoValue when not configured)
    customers,       \* table customers
    subscriptions,   \* table subscriptions
    payments,        \* table payments
    payment_events,  \* table payment_events (event log and audit rows)
    calls,           \* the handleWebhook invocations: locals and position
    faults           \* store / provider failures injected so far

vars == <<webhookSecret, customers, subscriptions, payments, payment_events, calls, faults>>

tables == <<customers, subscriptions, payments>>

-----------------------------------------------------------------------------
(* Bounds of the model *)

\* number of handleWebhook invocations in a behaviour
MaxCalls == 2

\* number of store / provider calls that may fail in a behaviour
MaxFaults == 1

Calls == 1..MaxCalls

-----------------------------------------------------------------------------
(* Values *)

\* JavaScript undefined for string-valued fields (and null wherever the code
\* and the store treat the two alike)
NoValue == "undefined"

\* a JSON null where the store tells it from undefined: JSON.stringify drops
\* an undefined field of an update and keeps a null one
Null == "null"

\* JavaScript undefined for number-valued fields
NoNum == -1

\* x || fallback for numbers: undefined and 0 are falsy
NumOr(x, fallback) == IF x = NoNum \/ x = 0 THEN fallback ELSE x

\* a default that replaces every value
StrOrAlwaysFallback(x, fallback) == fallback

\* x || fallback for strings: undefined, null and the empty string are falsy
StrOr(x, fallback) == IF x \in {NoValue, Null, ""} THEN fallback ELSE x

Secrets == {"whsec_1"}

\* the customer row that exists before any webhook arrives
KnownCustomer ==
    [id |-> "cust_row_1", user_id |-> "user_1", dodo_customer_id |-> "cus_1",
     email |-> "user_1@example.com"]

\* the 'now' of new Date().toISOString() in handleWebhook
Now == "now"

\* the 'now' of a call made outside handleWebhook: another instant
OtherNow == "other"

-----------------------------------------------------------------------------
(* new Date(seconds * 1000).toISOString() *)

\* civil date of a day count since 1970-01-01 (proleptic Gregorian calendar)
CivilFromDays(days) ==
    LET z   == days + 719468
        era == z \div 146097
        doe == z - era * 146097
        yoe == (doe - doe \div 1460 + doe \div 36524 - doe \div 146096) \div 365
        doy == doe - (365 * yoe + yoe \div 4 - yoe \div 100)
        mp  == (5 * doy + 2) \div 153
        d   == doy - (153 * mp + 2) \div 5 + 1
        m   == IF mp < 10 THEN mp + 3 ELSE mp - 9
        y   == yoe + era * 400 + (IF m <= 2 THEN 1 ELSE 0)
    IN  [year |-> y, month |-> m, day |-> d]

\* a conversion that takes the epoch value for milliseconds
EpochMillisToISO(seconds) ==
    LET days == (seconds \div 1000) \div 86400
        rem  == (seconds \div 1000) % 86400
        date == CivilFromDays(days)
    IN  [year |-> date.year, month |-> date.month, day |-> date.day,
         hour |-> rem \div 3600, minute |-> (rem % 3600) \div 60,
         second |-> rem % 60, ms |-> seconds % 1000]

\* the ISO-8601 UTC fields of the instant `seconds * 1000` ms after the epoch;
\* the product is a multiple of 1000, so the millisecond field is 0
EpochSecondsToISO(seconds) ==
    LET days == seconds \div 86400
        rem  == seconds % 86400
        date == CivilFromDays(days)
    IN  [year |-> date.year, month |-> date.month, day |-> date.day,
         hour |-> rem \div 3600, minute |-> (rem % 3600) \div 60,
         second |-> rem % 60, ms |-> 0]

\* new Date(NaN).toISOString() throws RangeError: undefined * 1000 is NaN
IsValidEpoch(seconds) == seconds # NoNum

\* value stored for a column that was never written
NoTimestamp == [year |-> 0, month |-> 0, day |-> 0, hour |-> 0, minute |-> 0,
                second |-> 0, ms |-> 0]

-----------------------------------------------------------------------------
(* Signature verification *)

\* crypto.createHmac('sha256', secret).update(payload).digest(): an ideal MAC,
\* one block that is determined by exactly the key and the message
Hmac(secret, payload) == <<[key |-> secret, msg |-> payload]>>

\* digest('hex'): one hex token per block
HexEncode(bytes) == [i \in 1..Len(bytes) |-> [hex |-> bytes[i]]]

IsHexToken(t) == "hex" \in DOMAIN t

\* Buffer.from(s, 'hex'): decodes up to the first token that is not hex
RECURSIVE HexDecode(_)
HexDecode(s) ==
    IF s = <<>> \/ ~IsHexToken(Head(s)) THEN <<>>
    ELSE <<Head(s).hex>> \o HexDecode(Tail(s))

Sha256Prefix == [lit |-> "sha256="]

Garbage == [lit |-> "zz"]

\* signature.replace('sha256=', ''): removes the first occurrence
RECURSIVE StripPrefix(_)
StripPrefix(s) ==
    IF s = <<>> THEN <<>>
    ELSE IF Head(s) = Sha256Prefix THEN Tail(s)
    ELSE <<Head(s)>> \o StripPrefix(Tail(s))

\* a verifier that compares the lengths of the two buffers only
verifyWebhookSignatureLengthOnly(secret, payload, signature) ==
    IF secret = NoValue THEN TRUE
    ELSE Len(HexDecode(StripPrefix(signature))) = Len(HexDecode(HexEncode(Hmac(secret, payload))))

\* a verifier that uses the secret even when none is configured
verifyWebhookSignatureSecretRequired(secret, payload, signature) ==
    HexDecode(StripPrefix(signature)) = HexDecode(HexEncode(Hmac(secret, payload)))

\* crypto.timingSafeEqual throws on buffers of different length, which the
\* catch turns into false
verifyWebhookSignature(secret, payload, signature) ==
    IF secret = NoValue THEN TRUE
    ELSE LET given    == HexDecode(StripPrefix(signature))
             expected == HexDecode(HexEncode(Hmac(secret, payload)))
         IN  IF Len(given) # Len(expected) THEN FALSE
             ELSE given = expected

\* the signature argument: absent (undefined) or a string
NoSignature == [present |-> FALSE, text |-> <<>>]

SignatureOf(text) == [present |-> TRUE, text |-> text]

\* a gate that checks whatever it is given, a missing signature included
SignatureAlwaysChecked(signature) == TRUE

\* `signature && ...`: undefined and the empty string are falsy
IsTruthySignature(signature) == signature.present /\ signature.text # <<>>

-----------------------------------------------------------------------------
(* Request bodies and events *)

\* data.object of an event, every field present or undefined
NoObject ==
    [id |-> NoValue, payment_id |-> NoValue, customer |-> NoValue, customer_id |-> NoValue,
     status |-> NoValue, current_period_start |-> NoNum, current_period_end |-> NoNum,
     cancel_at_period_end |-> FALSE, metadata |-> NoValue, failure_reason |-> NoValue,
     amount |-> NoNum, currency |-> NoValue, product |-> NoValue, price |-> NoValue]

\* a request body: text that JSON.parse rejects, the JSON text null, or the
\* JSON text of an object {id, type, data: {object}}
MalformedBody == [kind |-> "malformed", id |-> NoValue, type |-> NoValue, hasData |-> FALSE, obj |-> NoObject]

NullBody == [kind |-> "null", id |-> NoValue, type |-> NoValue, hasData |-> FALSE, obj |-> NoObject]

EventBody(id, type, obj) == [kind |-> "object", id |-> id, type |-> type, hasData |-> TRUE, obj |-> obj]

BareBody(id, type) == [kind |-> "object", id |-> id, type |-> type, hasData |-> FALSE, obj |-> NoObject]

\* a parser that accepts any text
JsonParsesAnything(body) == TRUE

\* JSON.parse(body): throws SyntaxError on text that is not JSON
JsonParses(body) == body.kind # "malformed"

JsonParse(body) ==
    [isNull |-> body.kind = "null", id |-> body.id, type |-> body.type,
     hasData |-> body.hasData, obj |-> body.obj]

NoEvent == JsonParse(NullBody)

-----------------------------------------------------------------------------
(* The store (Supabase / PostgREST over the schema of supabase/schema.sql) *)

Matching(tbl, col, val) == {i \in 1..Len(tbl) : tbl[i][col] = val}

\* UPDATE ... SET updates WHERE col = val
ApplyUpdate(tbl, col, val, updates) ==
    [i \in 1..Len(tbl) |->
        IF tbl[i][col] = val
        THEN [f \in DOMAIN tbl[i] |-> IF f \in DOMAIN updates THEN updates[f] ELSE tbl[i][f]]
        ELSE tbl[i]]

\* a store call that failed (connection, timeout, 5xx) and changed nothing
StoreError(tbl) == [ok |-> FALSE, table |-> tbl, rows |-> <<>>]

\* a lookup that answers with some customer whatever the provider id
getCustomerByDodoIdAnyRow(tbl, dodoCustomerId) ==
    IF tbl = {} THEN <<>> ELSE <<CHOOSE r \in tbl : TRUE>>

\* customers.select('*').eq('dodo_customer_id', id).single(): PGRST116 (no
\* row) is not an error, data is null
getCustomerByDodoId(tbl, dodoCustomerId) ==
    LET hit == {r \in tbl : r.dodo_customer_id = dodoCustomerId}
    IN  IF hit = {} THEN <<>> ELSE <<CHOOSE r \in hit : TRUE>>

\* customers.insert(customerData).select('*').single(), of saveCustomer and of
\* SupabaseService.createCustomer; customers.dodo_customer_id TEXT UNIQUE NOT NULL,
\* email TEXT NOT NULL
saveCustomer(tbl, customerData) ==
    IF /\ customerData.dodo_customer_id \notin {NoValue, Null}
       /\ customerData.email \notin {NoValue, Null}
       /\ \A r \in tbl : r.dodo_customer_id # customerData.dodo_customer_id
    THEN [ok |-> TRUE, table |-> tbl \cup {customerData}]
    ELSE [ok |-> FALSE, table |-> tbl]

\* subscriptions.dodo_subscription_id TEXT UNIQUE NOT NULL, status TEXT NOT NULL
SubscriptionInsertAllowed(tbl, row) ==
    /\ row.dodo_subscription_id \notin {NoValue, Null}
    /\ row.status # Null
    /\ Matching(tbl, "dodo_subscription_id", row.dodo_subscription_id) = {}

\* subscriptions.insert(subscriptionData).select('*').single(); an absent
\* status or metadata gets the column default ('active', '{}')
saveSubscription(tbl, row) ==
    LET stored == [row EXCEPT !.status = IF @ = NoValue THEN "active" ELSE @,
                              !.metadata = IF @ = NoValue THEN "{}" ELSE @]
    IN  IF SubscriptionInsertAllowed(tbl, row)
        THEN [ok |-> TRUE, table |-> Append(tbl, stored), rows |-> <<stored>>]
        ELSE StoreError(tbl)

\* subscriptions.status TEXT NOT NULL: an update that sets status to null is
\* refused and changes nothing
SubscriptionUpdateAllowed(updates) == ~("status" \in DOMAIN updates /\ updates.status = Null)

\* an update behind a transition guard: a cancelled or expired record is final
updateSubscriptionGuarded(tbl, dodoSubscriptionId, updates) ==
    LET hit  == Matching(tbl, "dodo_subscription_id", dodoSubscriptionId)
        open == \A i \in hit : tbl[i].status \notin {"cancelled", "expired"}
        new  == IF open THEN ApplyUpdate(tbl, "dodo_subscription_id", dodoSubscriptionId, updates)
                ELSE tbl
    IN  IF ~SubscriptionUpdateAllowed(updates) THEN StoreError(tbl)
        ELSE [ok |-> Cardinality(hit) = 1, table |-> new,
              rows |-> IF Cardinality(hit) = 1 THEN <<new[CHOOSE i \in hit : TRUE]>> ELSE <<>>]

\* an update for which no matching row is no error
updateSubscriptionMaybeSingle(tbl, dodoSubscriptionId, updates) ==
    IF ~SubscriptionUpdateAllowed(updates) THEN StoreError(tbl)
    ELSE [ok |-> TRUE,
          table |-> ApplyUpdate(tbl, "dodo_subscription_id", dodoSubscriptionId, updates),
          rows |-> <<>>]

\* an update that inserts the row it does not find
updateSubscriptionUpsert(tbl, dodoSubscriptionId, updates) ==
    LET hit == Matching(tbl, "dodo_subscription_id", dodoSubscriptionId)
        row == [f \in {"dodo_subscription_id"} \cup DOMAIN updates |->
                   IF f = "dodo_subscription_id" THEN dodoSubscriptionId ELSE updates[f]]
        new == IF hit = {} THEN Append(tbl, row)
               ELSE ApplyUpdate(tbl, "dodo_subscription_id", dodoSubscriptionId, updates)
    IN  IF ~SubscriptionUpdateAllowed(updates) THEN StoreError(tbl)
        ELSE [ok |-> Cardinality(hit) <= 1, table |-> new, rows |-> <<>>]

\* subscriptions.update(updates).eq('dodo_subscription_id', id).select('*').single():
\* the update is applied to every matching row, and single() reports an error
\* unless exactly one row comes back
updateSubscription(tbl, dodoSubscriptionId, updates) ==
    LET hit == Matching(tbl, "dodo_subscription_id", dodoSubscriptionId)
        new == ApplyUpdate(tbl, "dodo_subscription_id", dodoSubscriptionId, updates)
    IN  IF ~SubscriptionUpdateAllowed(updates) THEN StoreError(tbl)
        ELSE [ok |-> Cardinality(hit) = 1, table |-> new,
              rows |-> IF Cardinality(hit) = 1 THEN <<new[CHOOSE i \in hit : TRUE]>> ELSE <<>>]

\* payment_events.event_type TEXT NOT NULL, event_data JSONB NOT NULL: a row
\* whose event_type or event_data is absent or null is refused; dodo_event_id
\* is neither unique nor required.  event_data is an object or, when absent or
\* null, one of the strings NoValue and Null, so it is told apart by its text.
EventInsertAllowed(row) ==
    /\ row.event_type \notin {NoValue, Null}
    /\ ToString(row.event_data) \notin {ToString(NoValue), ToString(Null)}

\* a log row that is born processed
logPaymentEventRowProcessed(event) ==
    [event_type |-> event.type, event_data |-> event, dodo_event_id |-> event.id,
     processed |-> TRUE, processed_at |-> NoValue, retry_count |-> 0,
     by |-> "logPaymentEvent"]

\* the row logPaymentEvent inserts: processed defaults to false, retry_count 0
\* (`by` is no column: it records which function of the code inserted the row)
logPaymentEventRow(event) ==
    [event_type |-> event.type, event_data |-> event, dodo_event_id |-> event.id,
     processed |-> FALSE, processed_at |-> NoValue, retry_count |-> 0,
     by |-> "logPaymentEvent"]

\* a log insert behind a deduplication gate on the provider event id
logPaymentEventOnce(tbl, event) ==
    IF \E i \in 1..Len(tbl) : tbl[i].dodo_event_id = event.id
    THEN [ok |-> FALSE, table |-> tbl, id |-> 0]
    ELSE [ok |-> TRUE, table |-> Append(tbl, logPaymentEventRow(event)), id |-> Len(tbl) + 1]

\* payment_events.insert({...}).select('*').single(); the new row's id is its
\* position in the table
logPaymentEvent(tbl, event) ==
    IF EventInsertAllowed(logPaymentEventRow(event))
    THEN [ok |-> TRUE, table |-> Append(tbl, logPaymentEventRow(event)), id |-> Len(tbl) + 1]
    ELSE [ok |-> FALSE, table |-> tbl, id |-> 0]

\* a mark that also counts itself as a retry
markEventProcessedCounting(tbl, eventId) ==
    IF eventId \in 1..Len(tbl)
    THEN [ok |-> TRUE,
          table |-> [tbl EXCEPT ![eventId] = [@ EXCEPT !.processed = TRUE, !.processed_at = Now,
                                                       !.retry_count = @ + 1]]]
    ELSE [ok |-> FALSE, table |-> tbl]

\* a mark that reports success and updates nothing
markEventProcessedNoop(tbl, eventId) == [ok |-> TRUE, table |-> tbl]

\* payment_events.update({processed: true, processed_at: now}).eq('id', eventId).select('*').single()
markEventProcessed(tbl, eventId) ==
    IF eventId \in 1..Len(tbl)
    THEN [ok |-> TRUE,
          table |-> [tbl EXCEPT ![eventId] = [@ EXCEPT !.processed = TRUE, !.processed_at = Now]]]
    ELSE [ok |-> FALSE, table |-> tbl]

\* SupabaseService.createPaymentEvent(eventData):
\* payment_events.insert(eventData).select('*').single()
createPaymentEvent(tbl, eventData) ==
    IF EventInsertAllowed(eventData)
    THEN [ok |-> TRUE,
          table |-> Append(tbl, [event_type |-> eventData.event_type,
                                 event_data |-> eventData.event_data,
                                 dodo_event_id |-> eventData.dodo_event_id,
                                 processed |-> eventData.processed,
                                 processed_at |-> eventData.processed_at,
                                 retry_count |-> eventData.retry_count,
                                 by |-> "createPaymentEvent"])]
    ELSE [ok |-> FALSE, table |-> tbl]

\* SupabaseService.markEventAsProcessed(eventId):
\* payment_events.update({processed: true, processed_at: now}).eq('id', eventId).select('*').single()
markEventAsProcessed(tbl, eventId) ==
    IF eventId \in 1..Len(tbl)
    THEN [ok |-> TRUE,
          table |-> [tbl EXCEPT ![eventId] =
                        [@ EXCEPT !.processed = TRUE, !.processed_at = OtherNow]]]
    ELSE [ok |-> FALSE, table |-> tbl]

\* payments.dodo_payment_id TEXT UNIQUE NOT NULL, amount INTEGER NOT NULL,
\* currency TEXT NOT NULL DEFAULT 'USD' (an absent currency gets the default, a
\* null one is refused), status TEXT NOT NULL
PaymentInsertAllowed(tbl, row) ==
    /\ row.dodo_payment_id \notin {NoValue, Null}
    /\ row.status \notin {NoValue, Null}
    /\ row.amount # NoNum
    /\ row.currency # Null
    /\ Matching(tbl, "dodo_payment_id", row.dodo_payment_id) = {}

\* savePayment(paymentData): payments.insert({...paymentData, created_at, updated_at})
\* .select('*').single()
savePayment(tbl, paymentData) ==
    IF PaymentInsertAllowed(tbl, paymentData)
    THEN [ok |-> TRUE,
          table |-> Append(tbl, [paymentData EXCEPT !.currency = IF @ = NoValue THEN "USD" ELSE @])]
    ELSE [ok |-> FALSE, table |-> tbl]

\* updatePaymentStatus, first await: payments.select('id').eq('dodo_payment_id', id).single();
\* PGRST116 (not exactly one row) is read as "no existing payment"
findPayment(tbl, paymentId) == Cardinality(Matching(tbl, "dodo_payment_id", paymentId)) = 1

\* the minimal row updatePaymentStatus creates
MinimalPaymentRow(paymentId, status) ==
    [dodo_payment_id |-> paymentId, status |-> status, amount |-> 0, currency |-> "USD",
     customer_id |-> NoValue, dodo_customer_id |-> NoValue, failure_reason |-> NoValue]

\* a write that always inserts
writePaymentInsertOnly(tbl, paymentId, status, existing) ==
    IF PaymentInsertAllowed(tbl, MinimalPaymentRow(paymentId, status))
    THEN [ok |-> TRUE, table |-> Append(tbl, MinimalPaymentRow(paymentId, status)), rows |-> <<>>]
    ELSE StoreError(tbl)

\* updatePaymentStatus, second await: update({status, updated_at}) of the row
\* found, or insert of a minimal one.  The update leaves the status alone when
\* it is given undefined and is refused when it is given null (status NOT NULL).
writePayment(tbl, paymentId, status, existing) ==
    IF existing
    THEN IF status = Null THEN StoreError(tbl)
         ELSE [ok |-> Cardinality(Matching(tbl, "dodo_payment_id", paymentId)) = 1,
               table |-> IF status = NoValue THEN tbl
                         ELSE ApplyUpdate(tbl, "dodo_payment_id", paymentId, [status |-> status]),
               rows |-> <<>>]
    ELSE IF PaymentInsertAllowed(tbl, MinimalPaymentRow(paymentId, status))
    THEN [ok |-> TRUE, table |-> Append(tbl, MinimalPaymentRow(paymentId, status)), rows |-> <<>>]
    ELSE StoreError(tbl)

\* the row savePaymentEvent inserts into payment_events
savePaymentEventRow(eventData) ==
    [event_type |-> eventData.event_type,
     event_data |-> [payment_id |-> eventData.payment_id, status |-> eventData.status,
                     amount |-> eventData.amount, currency |-> eventData.currency,
                     customer_id |-> eventData.customer_id,
                     dodo_customer_id |-> eventData.dodo_customer_id,
                     failure_reason |-> eventData.failure_reason,
                     metadata |-> StrOr(eventData.metadata, "{}")],
     dodo_event_id |-> eventData.payment_id,
     processed |-> TRUE, processed_at |-> eventData.processed_at, retry_count |-> 0,
     by |-> "savePaymentEvent"]

\* an audit write that reports success and inserts nothing
savePaymentEventSkipped(tbl, eventData) == [ok |-> TRUE, table |-> tbl]

savePaymentEvent(tbl, eventData) ==
    IF EventInsertAllowed(savePaymentEventRow(eventData))
    THEN [ok |-> TRUE, table |-> Append(tbl, savePaymentEventRow(eventData))]
    ELSE [ok |-> FALSE, table |-> tbl]

\* GET /payments/{id} at the provider: the payment as the provider holds it
getPaymentDetails(paymentId) ==
    [payment_id |-> paymentId, customer_id |-> "cus_1", total_amount |-> 1000,
     currency |-> "USD", metadata |-> "{}"]

-----------------------------------------------------------------------------
(* Event-type dispatch of handleWebhook *)

PaymentTypes ==
    {"payment.succeeded", "payment.completed", "payment.failed", "payment.declined",
     "payment.processing", "payment.pending", "payment.cancelled"}

SubscriptionUpdateTypes ==
    {"subscription.on_hold", "subscription.renewed", "subscription.plan_changed",
     "subscription.cancelled", "subscription.failed", "subscription.expired"}

RefundTypes == {"refund.succeeded", "refund.failed"}

DisputeTypes ==
    {"dispute.opened", "dispute.expired", "dispute.accepted", "dispute.cancelled",
     "dispute.challenged", "dispute.won", "dispute.lost"}

\* a switch whose unmatched types fall into the log-and-return handlers
HandlerOfNoDefault(type) ==
    IF type \in PaymentTypes THEN "processPaymentWebhook"
    ELSE IF type = "subscription.active" THEN "handleSubscriptionActive"
    ELSE IF type \in SubscriptionUpdateTypes THEN "handleSubscriptionUpdate"
    ELSE "handleStateless"

\* the case of the switch an event type selects
HandlerOf(type) ==
    IF type \in PaymentTypes THEN "processPaymentWebhook"
    ELSE IF type = "subscription.active" THEN "handleSubscriptionActive"
    ELSE IF type \in SubscriptionUpdateTypes THEN "handleSubscriptionUpdate"
    ELSE IF type \in RefundTypes \cup DisputeTypes \cup {"license_key.created"}
         THEN "handleStateless"
    ELSE "default"

\* handleRefundSucceeded, handleRefundFailed, handleLicenseKeyCreated and
\* handleDisputeEvent: log and return a message; the dispute message is the
\* template `Dispute ${event.type} recorded`
StatelessMessage(type) ==
    IF type = "refund.succeeded" THEN "Refund success recorded"
    ELSE IF type = "refund.failed" THEN "Refund failure recorded"
    ELSE IF type = "license_key.created" THEN "License key creation recorded"
    ELSE "Dispute " \o type \o " recorded"

DefaultMessage == "Event logged but not processed"

-----------------------------------------------------------------------------
(* Subscription handlers *)

\* subscription.metadata || {}
MetadataOrEmpty(obj) == StrOr(obj.metadata, "{}")

\* the row handleSubscriptionActive passes to saveSubscription
SubscriptionRowOf(customer, obj) ==
    [dodo_subscription_id |-> obj.id, user_id |-> customer.user_id,
     customer_id |-> customer.id,
     product_id |-> StrOr(obj.product, ""), price_id |-> StrOr(obj.price, ""),
     status |-> "active",
     current_period_start |-> EpochSecondsToISO(obj.current_period_start),
     current_period_end |-> EpochSecondsToISO(obj.current_period_end),
     cancel_at_period_end |-> obj.cancel_at_period_end,
     metadata |-> MetadataOrEmpty(obj)]

handleSubscriptionOnHold(obj) ==
    [updates |-> [status |-> "on_hold"], message |-> "Subscription marked as on hold"]

\* a renewal that records the status and leaves the period bounds
handleSubscriptionRenewedStatusOnly(obj) ==
    [updates |-> [status |-> "active"], message |-> "Subscription renewal recorded"]

handleSubscriptionRenewed(obj) ==
    [updates |-> [status |-> "active",
                  current_period_start |-> EpochSecondsToISO(obj.current_period_start),
                  current_period_end |-> EpochSecondsToISO(obj.current_period_end)],
     message |-> "Subscription renewal recorded"]

\* { status: subscription.status, metadata: subscription.metadata || {} }: a
\* status of undefined is dropped when the update is serialised, a status of
\* null is sent as it is
handleSubscriptionPlanChanged(obj) ==
    [updates |-> IF obj.status = NoValue
                 THEN [metadata |-> MetadataOrEmpty(obj)]
                 ELSE [status |-> obj.status, metadata |-> MetadataOrEmpty(obj)],
     message |-> "Subscription plan change recorded"]

\* a cancellation that records the status and leaves the flag
handleSubscriptionCancelledStatusOnly(obj) ==
    [updates |-> [status |-> "cancelled"], message |-> "Subscription cancellation recorded"]

handleSubscriptionCancelled(obj) ==
    [updates |-> [status |-> "cancelled", cancel_at_period_end |-> TRUE],
     message |-> "Subscription cancellation recorded"]

handleSubscriptionFailed(obj) ==
    [updates |-> [status |-> "failed"], message |-> "Subscription failure recorded"]

handleSubscriptionExpired(obj) ==
    [updates |-> [status |-> "expired"], message |-> "Subscription expiration recorded"]

SubscriptionUpdateOf(type, obj) ==
    CASE type = "subscription.on_hold" -> handleSubscriptionOnHold(obj)
      [] type = "subscription.renewed" -> handleSubscriptionRenewed(obj)
      [] type = "subscription.plan_changed" -> handleSubscriptionPlanChanged(obj)
      [] type = "subscription.cancelled" -> handleSubscriptionCancelled(obj)
      [] type = "subscription.failed" -> handleSubscriptionFailed(obj)
      [] OTHER -> handleSubscriptionExpired(obj)

\* the handlers that convert period bounds throw RangeError on a missing bound
PeriodsValid(obj) ==
    IsValidEpoch(obj.current_period_start) /\ IsValidEpoch(obj.current_period_end)

-----------------------------------------------------------------------------
(* handleWebhook invocations *)

NoResult == [returned |-> FALSE, success |-> FALSE, error |-> NoValue, message |-> NoValue]

\* an error that escapes handleWebhook: the caller gets no result
FailureThrown(error) == NoResult

\* the catch of handleWebhook: { success: false, error: error.message }
Failure(error) == [returned |-> TRUE, success |-> FALSE, error |-> error, message |-> NoValue]

\* { success: true, ...result }
Success(message) == [returned |-> TRUE, success |-> TRUE, error |-> NoValue, message |-> message]

\* the HTTP exchange an invocation serves: none when handleWebhook is called
\* directly; status 0 until the endpoint has answered
IdleCall ==
    [pc |-> "idle", body |-> NullBody, signature |-> NoSignature, event |-> NoEvent,
     eventLogId |-> 0, message |-> NoValue, customer |-> <<>>, details |-> <<>>,
     existingPayment |-> FALSE, result |-> NoResult, trace |-> <<>>, http |-> [method |-> NoValue, status |-> 0]]

\* status: result.success ? 200 : 400
StatusOf(result) == IF result.success THEN 200 ELSE 400

\* handleWebhook returns; when the endpoint made the call, it answers at once
Return(call, result) ==
    [call EXCEPT !.pc = "done", !.result = result,
                 !.http.status = IF call.http.method = NoValue THEN @ ELSE StatusOf(result)]

Goto(call, pc) == [call EXCEPT !.pc = pc]

\* history of the store / provider calls an invocation has made, with the
\* outcome of each (ok: it returned no error; fault: the failure was injected)
Issued(call, op, ok, fault) ==
    [call EXCEPT !.trace = Append(@, [op |-> op, ok |-> ok, fault |-> fault])]

\* the first awaited call of each payment path (see processPaymentWebhook)
PaymentEntry(type) ==
    IF type \in {"payment.succeeded", "payment.completed", "payment.failed", "payment.declined"}
    THEN "getPaymentDetails"
    ELSE IF type \in {"payment.pending", "payment.cancelled"} THEN "findPayment"
    ELSE "savePaymentEvent"

\* handleWebhook from the switch up to the first await of the selected handler
Dispatch(call) ==
    LET event   == call.event
        handler == HandlerOf(event.type)
    IN  IF handler = "default"
        THEN Goto([call EXCEPT !.message = DefaultMessage], "markEventProcessed")
        ELSE IF ~event.hasData
        THEN Return(call, Failure("TypeError"))
        ELSE IF handler = "handleStateless"
        THEN Goto([call EXCEPT !.message = StatelessMessage(event.type)], "markEventProcessed")
        ELSE IF handler = "handleSubscriptionActive"
        THEN Goto(call, "getCustomerByDodoId")
        ELSE IF handler = "handleSubscriptionUpdate"
        THEN IF event.type = "subscription.renewed" /\ ~PeriodsValid(event.obj)
             THEN Return(call, Failure("RangeError"))
             ELSE Goto(call, "updateSubscription")
        ELSE Goto(call, PaymentEntry(event.type))

\* an entry that never verifies the signature
handleWebhookEntryNoGate(secret, call, body, signature) ==
    IF ~JsonParses(body) THEN Return([call EXCEPT !.body = body, !.signature = signature], Failure("SyntaxError"))
    ELSE Goto([call EXCEPT !.body = body, !.signature = signature, !.event = JsonParse(body)], "logPaymentEvent")

\* an entry that dispatches without logging the event first
handleWebhookEntryUnlogged(secret, call, body, signature) ==
    LET c == [call EXCEPT !.body = body, !.signature = signature]
    IN  IF IsTruthySignature(signature) /\ ~verifyWebhookSignature(secret, body, signature.text)
        THEN Return(c, Failure("Invalid signature"))
        ELSE IF ~JsonParses(body)
        THEN Return(c, Failure("SyntaxError"))
        ELSE IF JsonParse(body).isNull
        THEN Return([c EXCEPT !.event = JsonParse(body)], Failure("TypeError"))
        ELSE Dispatch([c EXCEPT !.event = JsonParse(body)])

\* handleWebhook up to its first await: verify, parse, read event.type
handleWebhookEntry(secret, call, body, signature) ==
    LET c == [call EXCEPT !.body = body, !.signature = signature]
    IN  IF IsTruthySignature(signature) /\ ~verifyWebhookSignature(secret, body, signature.text)
        THEN Return(c, Failure("Invalid signature"))
        ELSE IF ~JsonParses(body)
        THEN Return(c, Failure("SyntaxError"))
        ELSE IF JsonParse(body).isNull
        THEN Return([c EXCEPT !.event = JsonParse(body)], Failure("TypeError"))
        ELSE Goto([c EXCEPT !.event = JsonParse(body)], "logPaymentEvent")

\* new Response('Method not allowed', { status: 405 }): handleWebhook is not called
MethodNotAllowed(call, method) ==
    [call EXCEPT !.pc = "done", !.http = [method |-> method, status |-> 405]]

\* the catch of the endpoint: an exception outside handleWebhook, status 500
UnhandledException(call, method) ==
    [call EXCEPT !.pc = "done", !.http = [method |-> method, status |-> 500]]

\* req.headers.get('dodo-signature') || req.headers.get('x-dodo-signature'),
\* then signature || undefined
HeaderSignature(headers) ==
    IF IsTruthySignature(headers.dodo) THEN headers.dodo
    ELSE IF IsTruthySignature(headers.xdodo) THEN headers.xdodo
    ELSE NoSignature

\* an endpoint that answers every method
serveAnyMethod(secret, call, method, readable, body, headers) ==
    handleWebhookEntry(secret, [call EXCEPT !.http = [method |-> method, status |-> 0]],
                       body, HeaderSignature(headers))

\* the endpoint up to the first await inside handleWebhook
serve(secret, call, method, readable, body, headers) ==
    IF method # "POST" THEN MethodNotAllowed(call, method)
    ELSE IF ~readable THEN UnhandledException(call, method)
    ELSE handleWebhookEntry(secret, [call EXCEPT !.http = [method |-> method, status |-> 0]],
                            body, HeaderSignature(headers))

-----------------------------------------------------------------------------
(* Actions *)

\* whether the next store / provider call fails
FaultChoices == IF faults < MaxFaults THEN BOOLEAN ELSE {FALSE}

Fault(fail) == faults' = IF fail THEN faults + 1 ELSE faults

At(c, pc) == calls[c].pc = pc

\* handleWebhook(body, signature) is invoked
Receive(c, requests) ==
    /\ At(c, "idle")
    /\ IF c = 1 THEN TRUE ELSE ~At(c - 1, "idle")
    /\ \E r \in requests :
          calls' = [calls EXCEPT ![c] = handleWebhookEntry(webhookSecret, @, r.body, r.signature)]
    /\ UNCHANGED <<webhookSecret, tables, payment_events, faults>>

\* an HTTP request reaches the endpoint
Serve(c, methods, requests) ==
    /\ At(c, "idle")
    /\ IF c = 1 THEN TRUE ELSE ~At(c - 1, "idle")
    /\ \E method \in methods : \E readable \in BOOLEAN : \E r \in requests :
          calls' = [calls EXCEPT ![c] =
                       serve(webhookSecret, @, method, readable, r.body, r.headers)]
    /\ UNCHANGED <<webhookSecret, tables, payment_events, faults>>

\* await logPaymentEvent(...), then the switch
LogEvent(c) ==
    /\ At(c, "logPaymentEvent")
    /\ \E fail \in FaultChoices :
          LET r    == IF fail THEN [ok |-> FALSE, table |-> payment_events, id |-> 0]
                      ELSE logPaymentEvent(payment_events, calls[c].event)
              call == Issued(calls[c], "logPaymentEvent", r.ok, fail)
          IN  /\ Fault(fail)
              /\ payment_events' = r.table
              /\ calls' = [calls EXCEPT ![c] =
                    IF r.ok THEN Dispatch([call EXCEPT !.eventLogId = r.id])
                    ELSE Return(call, Failure("Failed to log event"))]
    /\ UNCHANGED <<webhookSecret, tables>>

\* handleSubscriptionActive: await getCustomerByDodoId(subscription.customer);
\* every throw inside its try block becomes a message
SubscriptionCustomer(c) ==
    /\ At(c, "getCustomerByDodoId")
    /\ \E fail \in FaultChoices :
          LET found == getCustomerByDodoId(customers, calls[c].event.obj.customer)
              call  == Issued(calls[c], "getCustomerByDodoId", ~fail, fail)
          IN  /\ Fault(fail)
              /\ calls' = [calls EXCEPT ![c] =
                    IF fail
                    THEN Goto([call EXCEPT !.message = "Error processing subscription activation"],
                              "markEventProcessed")
                    ELSE IF found = <<>>
                    THEN Goto([call EXCEPT !.message = "Customer not found"], "markEventProcessed")
                    ELSE IF ~PeriodsValid(call.event.obj)
                    THEN Goto([call EXCEPT !.message = "Error processing subscription activation"],
                              "markEventProcessed")
                    ELSE Goto([call EXCEPT !.customer = found], "saveSubscription")]
    /\ UNCHANGED <<webhookSecret, tables, payment_events>>

\* handleSubscriptionActive: await saveSubscription({...})
SubscriptionSave(c) ==
    /\ At(c, "saveSubscription")
    /\ \E fail \in FaultChoices :
          LET row  == SubscriptionRowOf(calls[c].customer[1], calls[c].event.obj)
              r    == IF fail THEN StoreError(subscriptions) ELSE saveSubscription(subscriptions, row)
              call == Issued(calls[c], "saveSubscription", r.ok, fail)
          IN  /\ Fault(fail)
              /\ subscriptions' = r.table
              /\ calls' = [calls EXCEPT ![c] =
                    Goto([call EXCEPT !.message =
                              IF r.ok THEN "Subscription activated and saved"
                              ELSE "Error processing subscription activation"],
                         "markEventProcessed")]
    /\ UNCHANGED <<webhookSecret, customers, payments, payment_events>>

\* handleSubscriptionOnHold .. handleSubscriptionExpired: await updateSubscription(id, {...})
SubscriptionUpdate(c) ==
    /\ At(c, "updateSubscription")
    /\ \E fail \in FaultChoices :
          LET h    == SubscriptionUpdateOf(calls[c].event.type, calls[c].event.obj)
              r    == IF fail THEN StoreError(subscriptions)
                      ELSE updateSubscription(subscriptions, calls[c].event.obj.id, h.updates)
              call == Issued(calls[c], "updateSubscription", r.ok, fail)
          IN  /\ Fault(fail)
              /\ subscriptions' = r.table
              /\ calls' = [calls EXCEPT ![c] =
                    IF r.ok THEN Goto([call EXCEPT !.message = h.message], "markEventProcessed")
                    ELSE Return(call, Failure("Failed to update subscription"))]
    /\ UNCHANGED <<webhookSecret, customers, payments, payment_events>>

\* await markEventProcessed(eventLog.id); return { success: true, ...result }
MarkProcessed(c) ==
    /\ At(c, "markEventProcessed")
    /\ \E fail \in FaultChoices :
          LET r    == IF fail THEN [ok |-> FALSE, table |-> payment_events]
                      ELSE markEventProcessed(payment_events, calls[c].eventLogId)
              call == Issued(calls[c], "markEventProcessed", r.ok, fail)
          IN  /\ Fault(fail)
              /\ payment_events' = r.table
              /\ calls' = [calls EXCEPT ![c] =
                    IF r.ok THEN Return(call, Success(call.message))
                    ELSE Return(call, Failure("Failed to mark event as processed"))]
    /\ UNCHANGED <<webhookSecret, tables>>

-----------------------------------------------------------------------------
(* Payment handlers (processPaymentWebhook and the handlers it calls) *)

\* paymentData.payment_id || paymentData.id
PaymentIdOf(obj) == StrOr(obj.payment_id, obj.id)

\* a dispatch that sends the failure events down the success path too
IsSuccessTypeOrFailure(type) ==
    type \in {"payment.succeeded", "payment.completed", "payment.failed", "payment.declined"}

\* a dispatch that sends no event down the success path
IsSuccessTypeNever(type) == FALSE

IsSuccessType(type) == type \in {"payment.succeeded", "payment.completed"}

IsFailureType(type) == type \in {"payment.failed", "payment.declined"}

\* the status each path passes to updatePaymentStatus
PaymentStatusOf(type) ==
    IF IsSuccessType(type) THEN "succeeded"
    ELSE IF IsFailureType(type) THEN "failed"
    ELSE IF type = "payment.pending" THEN "pending"
    ELSE "cancelled"

\* the provider customer id a payment path resolves the customer by
PaymentCustomerId(type, obj, details) ==
    IF details # <<>> /\ StrOr(details[1].customer_id, NoValue) # NoValue
    THEN details[1].customer_id
    ELSE IF IsFailureType(type) THEN StrOr(obj.customer_id, NoValue)
    ELSE NoValue

\* the argument of savePaymentEvent on each path
AuditDataOf(type, obj, details, customer) ==
    LET rowId == IF customer = <<>> THEN NoValue ELSE customer[1].id
    IN  IF IsSuccessType(type)
        THEN [payment_id |-> PaymentIdOf(obj), event_type |-> "payment.succeeded",
              status |-> "succeeded", amount |-> details[1].total_amount,
              currency |-> StrOr(details[1].currency, "USD"), customer_id |-> rowId,
              dodo_customer_id |-> details[1].customer_id, failure_reason |-> NoValue,
              metadata |-> StrOr(details[1].metadata, "{}"), processed_at |-> Now]
        ELSE IF IsFailureType(type)
        THEN [payment_id |-> PaymentIdOf(obj), event_type |-> "payment.failed",
              status |-> "failed",
              amount |-> IF details # <<>> THEN NumOr(details[1].total_amount, NumOr(obj.amount, 0))
                         ELSE NumOr(obj.amount, 0),
              currency |-> IF details # <<>> THEN StrOr(details[1].currency, StrOr(obj.currency, "USD"))
                           ELSE StrOr(obj.currency, "USD"),
              customer_id |-> rowId,
              dodo_customer_id |-> PaymentCustomerId(type, obj, details),
              failure_reason |-> StrOr(obj.failure_reason, "Unknown error"),
              metadata |-> IF details # <<>>
                           THEN StrOr(details[1].metadata, StrOr(obj.metadata, "{}"))
                           ELSE StrOr(obj.metadata, "{}"),
              processed_at |-> Now]
        ELSE IF type \in {"payment.pending", "payment.cancelled"}
        THEN [payment_id |-> PaymentIdOf(obj), event_type |-> type,
              status |-> PaymentStatusOf(type), amount |-> NumOr(obj.amount, 0),
              currency |-> StrOr(obj.currency, "USD"), customer_id |-> NoValue,
              dodo_customer_id |-> StrOr(obj.customer_id, NoValue), failure_reason |-> NoValue,
              metadata |-> StrOr(obj.metadata, "{}"), processed_at |-> Now]
        ELSE [payment_id |-> PaymentIdOf(obj), event_type |-> type,
              status |-> StrOr(obj.status, "unknown"), amount |-> NumOr(obj.amount, 0),
              currency |-> StrOr(obj.currency, "USD"), customer_id |-> NoValue,
              dodo_customer_id |-> StrOr(obj.customer_id, NoValue), failure_reason |-> NoValue,
              metadata |-> StrOr(obj.metadata, "{}"), processed_at |-> Now]

\* handlePaymentSuccess / handlePaymentFailure: await getPaymentDetails(payment_id);
\* only the failure path catches its error
PaymentDetails(c) ==
    /\ At(c, "getPaymentDetails")
    /\ \E fail \in FaultChoices :
          LET event   == calls[c].event
              details == IF fail THEN <<>> ELSE <<getPaymentDetails(PaymentIdOf(event.obj))>>
              call    == Issued(calls[c], "getPaymentDetails", ~fail, fail)
          IN  /\ Fault(fail)
              /\ calls' = [calls EXCEPT ![c] =
                    IF fail /\ IsSuccessType(event.type)
                    THEN Return(call, Failure("Dodo API error"))
                    ELSE Goto([call EXCEPT !.details = details],
                              IF PaymentCustomerId(event.type, event.obj, details) # NoValue
                              THEN "getPaymentCustomer" ELSE "findPayment")]
    /\ UNCHANGED <<webhookSecret, tables, payment_events>>

\* handlePaymentSuccess / handlePaymentFailure: await getCustomerByDodoId(customerId)
PaymentCustomer(c) ==
    /\ At(c, "getPaymentCustomer")
    /\ \E fail \in FaultChoices :
          LET event == calls[c].event
              found == getCustomerByDodoId(customers,
                           PaymentCustomerId(event.type, event.obj, calls[c].details))
              call  == Issued(calls[c], "getCustomerByDodoId", ~fail, fail)
          IN  /\ Fault(fail)
              /\ calls' = [calls EXCEPT ![c] =
                    IF fail THEN Return(call, Failure("Failed to get customer"))
                    ELSE Goto([call EXCEPT !.customer = found], "findPayment")]
    /\ UNCHANGED <<webhookSecret, tables, payment_events>>

\* updatePaymentStatus: the select that looks for the payment
PaymentFind(c) ==
    /\ At(c, "findPayment")
    /\ \E fail \in FaultChoices :
          LET call == Issued(calls[c], "findPayment", ~fail, fail)
          IN  /\ Fault(fail)
              /\ calls' = [calls EXCEPT ![c] =
                    IF fail THEN Return(call, Failure("Failed to find payment"))
                    ELSE Goto([call EXCEPT !.existingPayment =
                                   findPayment(payments, PaymentIdOf(call.event.obj))],
                              "writePayment")]
    /\ UNCHANGED <<webhookSecret, tables, payment_events>>

\* updatePaymentStatus: the update or the insert
PaymentWrite(c) ==
    /\ At(c, "writePayment")
    /\ \E fail \in FaultChoices :
          LET event == calls[c].event
              r     == IF fail THEN StoreError(payments)
                       ELSE writePayment(payments, PaymentIdOf(event.obj),
                                         PaymentStatusOf(event.type), calls[c].existingPayment)
              call  == Issued(calls[c], "writePayment", r.ok, fail)
          IN  /\ Fault(fail)
              /\ payments' = r.table
              /\ calls' = [calls EXCEPT ![c] =
                    IF r.ok THEN Goto(call, "savePaymentEvent")
                    ELSE Return(call, Failure(IF call.existingPayment
                                              THEN "Failed to update payment status"
                                              ELSE "Failed to create payment record"))]
    /\ UNCHANGED <<webhookSecret, customers, subscriptions, payment_events>>

\* an audit write in one transaction with the payment write: when it fails,
\* the payment row of the event is taken back
PaymentAuditRollsBack(c) ==
    /\ At(c, "savePaymentEvent")
    /\ \E fail \in FaultChoices :
          LET event == calls[c].event
              data  == AuditDataOf(event.type, event.obj, calls[c].details, calls[c].customer)
              r     == IF fail THEN [ok |-> FALSE, table |-> payment_events]
                       ELSE savePaymentEvent(payment_events, data)
              call  == Issued(calls[c], "savePaymentEvent", r.ok, fail)
              keep(row) == row.dodo_payment_id # PaymentIdOf(event.obj)
          IN  /\ Fault(fail)
              /\ payment_events' = r.table
              /\ payments' = IF r.ok THEN payments ELSE SelectSeq(payments, keep)
              /\ calls' = [calls EXCEPT ![c] =
                    IF r.ok THEN Goto(call, "markEventProcessed")
                    ELSE Return(call, Failure("Failed to save payment event"))]
    /\ UNCHANGED <<webhookSecret, customers, subscriptions>>

\* await savePaymentEvent({...}); processPaymentWebhook returns undefined
PaymentAudit(c) ==
    /\ At(c, "savePaymentEvent")
    /\ \E fail \in FaultChoices :
          LET event == calls[c].event
              data  == AuditDataOf(event.type, event.obj, calls[c].details, calls[c].customer)
              r     == IF fail THEN [ok |-> FALSE, table |-> payment_events]
                       ELSE savePaymentEvent(payment_events, data)
              call  == Issued(calls[c], "savePaymentEvent", r.ok, fail)
          IN  /\ Fault(fail)
              /\ payment_events' = r.table
              /\ calls' = [calls EXCEPT ![c] =
                    IF r.ok THEN Goto(call, "markEventProcessed")
                    ELSE Return(call, Failure("Failed to save payment event"))]
    /\ UNCHANGED <<webhookSecret, tables>>

-----------------------------------------------------------------------------
(* Inputs *)

SubscriptionObject(id, customer, start, end, cancel, metadata, status) ==
    [NoObject EXCEPT !.id = id, !.customer = customer, !.current_period_start = start,
                     !.current_period_end = end, !.cancel_at_period_end = cancel,
                     !.metadata = metadata, !.status = status]

PaymentObject(id, customer_id, status, failure_reason) ==
    [NoObject EXCEPT !.id = id, !.customer_id = customer_id, !.status = status,
                     !.failure_reason = failure_reason]

IdOnly(id) == [NoObject EXCEPT !.id = id]

\* period bounds in epoch seconds: a first period and the one after it
FirstPeriod == [start |-> 1700000000, end |-> 1702592000]

NextPeriod == [start |-> 1702592000, end |-> 1705270400]

ActiveBody(sub, customer, cancel, metadata) ==
    EventBody("evt_1", "subscription.active",
              SubscriptionObject(sub, customer, FirstPeriod.start, FirstPeriod.end,
                                 cancel, metadata, "active"))

RenewedBody(sub) ==
    EventBody("evt_2", "subscription.renewed",
              SubscriptionObject(sub, NoValue, NextPeriod.start, NextPeriod.end,
                                 FALSE, NoValue, "active"))

\* the subscription events: every subscription handler, two provider
\* subscription ids, a known and an unknown customer, metadata absent, empty
\* and present, one activation that names a product and a price
SubscriptionRequests ==
    {[body |-> b, signature |-> NoSignature] : b \in
        {ActiveBody("sub_1", "cus_1", FALSE, NoValue),
         ActiveBody("sub_1", "cus_1", TRUE, "m1"),
         ActiveBody("sub_1", "cus_2", FALSE, NoValue),
         [ActiveBody("sub_2", "cus_1", FALSE, "")
             EXCEPT !.obj.product = "prod_1", !.obj.price = "price_1"],
         RenewedBody("sub_1"),
         EventBody("evt_3", "subscription.plan_changed",
                   SubscriptionObject("sub_1", NoValue, NoNum, NoNum, FALSE, "m2", "trialing"))}
        \cup {EventBody("evt_4", type, IdOnly("sub_1")) :
                 type \in {"subscription.on_hold", "subscription.cancelled",
                           "subscription.failed", "subscription.expired"}}}

\* one body for every way through handleWebhook
AllBodies ==
    {MalformedBody, NullBody, BareBody("evt_0", NoValue), BareBody("evt_0", Null),
     BareBody("evt_5", "invoice.created"),
     EventBody("evt_6", "refund.succeeded", IdOnly("ref_1")),
     BareBody("evt_7", "refund.failed"),
     ActiveBody("sub_1", "cus_1", FALSE, NoValue),
     EventBody("evt_2", "subscription.renewed", IdOnly("sub_1")),
     EventBody("evt_4", "subscription.cancelled", IdOnly("sub_1")),
     EventBody("evt_12", "payment.pending", PaymentObject("pay_1", NoValue, "pending", NoValue)),
     EventBody("evt_13", "payment.processing", PaymentObject("pay_1", NoValue, NoValue, NoValue))}

\* some body other than `body`
OtherBody(body) == IF body = NullBody THEN MalformedBody ELSE NullBody

\* no signature and, for three of the bodies, the signature of the body or the
\* signature of another body
AllSignatures(body) ==
    IF body \notin {MalformedBody, BareBody("evt_5", "invoice.created"),
                    EventBody("evt_4", "subscription.cancelled", IdOnly("sub_1"))}
    THEN {NoSignature}
    ELSE {NoSignature}
         \cup {SignatureOf(HexEncode(Hmac(s, body))) : s \in Secrets}
         \cup {SignatureOf(HexEncode(Hmac(s, OtherBody(body)))) : s \in Secrets}

\* the requests of each specification: a body and the signature argument
AllRequests ==
    UNION {{[body |-> b, signature |-> sig] : sig \in AllSignatures(b)} : b \in AllBodies}

\* the rows of payment_events a function of the store API inserted
Rows(by) == {i \in 1..Len(payment_events) : payment_events[i].by = by}

-----------------------------------------------------------------------------
(* The other writers of the tables: signup and the exported store API        *)
(* (SupabaseService, savePayment).  Each is one store call made outside      *)
(* handleWebhook, at any moment; a call the store refuses changes nothing.   *)

\* signup: await saveCustomer({user_id, dodo_customer_id, email, ...}), for a
\* second user
SaveCustomer ==
    /\ customers' = saveCustomer(customers, [id |-> "cust_row_2", user_id |-> "user_2",
                                             dodo_customer_id |-> "cus_2",
                                             email |-> "user_2@example.com"]).table
    /\ UNCHANGED <<webhookSecret, subscriptions, payments, payment_events, calls, faults>>

\* SupabaseService.createCustomer(customerData): the same insert, with an email
\* or (refused) a null email
CreateCustomer ==
    /\ \E email \in {"user_2@example.com", Null} :
          customers' = saveCustomer(customers, [id |-> "cust_row_2", user_id |-> "user_2",
                                                dodo_customer_id |-> "cus_2",
                                                email |-> email]).table
    /\ UNCHANGED <<webhookSecret, subscriptions, payments, payment_events, calls, faults>>

\* SupabaseService.createSubscription(subscriptionData): the insert of
\* saveSubscription, of a record with no period bounds
CreateSubscription ==
    /\ subscriptions' =
          saveSubscription(subscriptions,
                           [dodo_subscription_id |-> "sub_1", user_id |-> "user_1",
                            customer_id |-> "cust_row_1", product_id |-> "prod_1",
                            price_id |-> "price_1", status |-> "active",
                            current_period_start |-> NoTimestamp,
                            current_period_end |-> NoTimestamp,
                            cancel_at_period_end |-> FALSE, metadata |-> "{}"]).table
    /\ UNCHANGED <<webhookSecret, customers, payments, payment_events, calls, faults>>

\* SupabaseService.updateSubscription(subscriptionId, updates): the update of
\* updateSubscription, setting a status or (refused) a null status
ServiceUpdateSubscription ==
    /\ \E status \in {"cancelled", Null} :
          subscriptions' = updateSubscription(subscriptions, "sub_1", [status |-> status]).table
    /\ UNCHANGED <<webhookSecret, customers, payments, payment_events, calls, faults>>

\* SupabaseService.createPaymentEvent(eventData), of an unprocessed event; the
\* record is given once, whole, or (refused) with a null event_type or without
\* its event_data
CreatePaymentEvent ==
    /\ Rows("createPaymentEvent") = {}
    /\ \E type \in {"invoice.created", Null}, given \in BOOLEAN :
          payment_events' =
             createPaymentEvent(payment_events,
                                [event_type |-> type,
                                 event_data |-> IF given
                                                THEN JsonParse(BareBody("evt_5", "invoice.created"))
                                                ELSE NoValue,
                                 dodo_event_id |-> "evt_5", processed |-> FALSE,
                                 processed_at |-> NoValue, retry_count |-> 0]).table
    /\ UNCHANGED <<webhookSecret, tables, calls, faults>>

\* SupabaseService.markEventAsProcessed(eventId), of the first record of the table
MarkEventAsProcessed ==
    /\ payment_events' = markEventAsProcessed(payment_events, 1).table
    /\ UNCHANGED <<webhookSecret, tables, calls, faults>>

\* savePayment(paymentData), of a succeeded payment of 500, whole or (refused)
\* with a null provider id, without a status or without an amount
SavePayment ==
    /\ \E id \in {"pay_1", Null}, status \in {"succeeded", NoValue}, amount \in {500, NoNum} :
          payments' = savePayment(payments,
                                  [dodo_payment_id |-> id, status |-> status,
                                   amount |-> amount, currency |-> NoValue,
                                   customer_id |-> NoValue, dodo_customer_id |-> NoValue,
                                   failure_reason |-> NoValue]).table
    /\ UNCHANGED <<webhookSecret, customers, subscriptions, payment_events, calls, faults>>

-----------------------------------------------------------------------------
(* Specifications *)

InitWith(secrets) ==
    /\ webhookSecret \in secrets
    /\ customers = {KnownCustomer}
    /\ subscriptions = <<>>
    /\ payments = <<>>
    /\ payment_events = <<>>
    /\ calls = [c \in Calls |-> IdleCall]
    /\ faults = 0

Next ==
    \/ \E c \in Calls :
          \/ Receive(c, AllRequests)
          \/ LogEvent(c)
          \/ SubscriptionCustomer(c)
          \/ SubscriptionSave(c)
          \/ SubscriptionUpdate(c)
          \/ PaymentFind(c)
          \/ PaymentWrite(c)
          \/ PaymentAudit(c)
          \/ MarkProcessed(c)
    \/ CreatePaymentEvent
    \/ MarkEventAsProcessed

\* every way through handleWebhook, signed and unsigned requests, a secret configured
Spec == InitWith(Secrets) /\ [][Next]_vars

\* the subscription events in depth, unsigned
NextSubscriptions ==
    \/ \E c \in Calls :
          \/ Receive(c, SubscriptionRequests)
          \/ LogEvent(c)
          \/ SubscriptionCustomer(c)
          \/ SubscriptionSave(c)
          \/ SubscriptionUpdate(c)
          \/ MarkProcessed(c)
    \/ SaveCustomer
    \/ CreateCustomer
    \/ CreateSubscription
    \/ ServiceUpdateSubscription
    \/ MarkEventAsProcessed

SpecSubscriptions == InitWith({NoValue}) /\ [][NextSubscriptions]_vars

\* payment events handled by handlePaymentStatusUpdate, for one provider payment id
PaymentStatusRequests ==
    {[body |-> b, signature |-> NoSignature] : b \in
        {EventBody("evt_12", "payment.pending", PaymentObject("pay_1", NoValue, "pending", NoValue)),
         EventBody("evt_11", "payment.cancelled", PaymentObject("pay_1", "cus_1", "cancelled", NoValue)),
         EventBody("evt_14", "payment.cancelled", PaymentObject("pay_2", NoValue, "cancelled", NoValue))}}

\* the payment status updates in depth, unsigned
NextPaymentStatus ==
    \/ \E c \in Calls :
          \/ Receive(c, PaymentStatusRequests)
          \/ LogEvent(c)
          \/ PaymentFind(c)
          \/ PaymentWrite(c)
          \/ PaymentAudit(c)
          \/ MarkProcessed(c)
    \/ MarkEventAsProcessed

SpecPaymentStatus == InitWith({NoValue}) /\ [][NextPaymentStatus]_vars

\* payment events handled by handlePaymentSuccess and handlePaymentFailure:
\* a success, and a failure that carries a reason, for one provider payment
\* id, and a failure whose object has a null id
PaymentOutcomeRequests ==
    {[body |-> b, signature |-> NoSignature] : b \in
        {EventBody("evt_8", "payment.succeeded", PaymentObject("pay_1", NoValue, "succeeded", NoValue)),
         EventBody("evt_9", "payment.failed",
                   PaymentObject("pay_1", NoValue, "failed", "card_declined")),
         EventBody("evt_10", "payment.failed", PaymentObject(Null, NoValue, "failed", NoValue))}}

\* payment successes and failures in depth, unsigned
NextPaymentOutcome ==
    \/ \E c \in Calls :
          \/ Receive(c, PaymentOutcomeRequests)
          \/ LogEvent(c)
          \/ PaymentDetails(c)
          \/ PaymentCustomer(c)
          \/ PaymentFind(c)
          \/ PaymentWrite(c)
          \/ PaymentAudit(c)
          \/ MarkProcessed(c)
    \/ SavePayment
    \/ MarkEventAsProcessed

SpecPaymentOutcome == InitWith({NoValue}) /\ [][NextPaymentOutcome]_vars

\* payment events of a subtype processPaymentWebhook has no case for, with
\* and without a status in the event, next to a status update of the same
\* provider payment id
PaymentProcessingRequests ==
    {[body |-> b, signature |-> NoSignature] : b \in
    {EventBody("evt_13", "payment.processing", PaymentObject("pay_1", NoValue, NoValue, NoValue)),
     EventBody("evt_15", "payment.processing",
               PaymentObject("pay_1", "cus_1", "processing", NoValue)),
     EventBody("evt_12", "payment.pending", PaymentObject("pay_1", NoValue, "pending", NoValue))}}

\* the default case of processPaymentWebhook in depth, unsigned
NextPaymentProcessing ==
    \/ \E c \in Calls :
          \/ Receive(c, PaymentProcessingRequests)
          \/ LogEvent(c)
          \/ PaymentFind(c)
          \/ PaymentWrite(c)
          \/ PaymentAudit(c)
          \/ MarkProcessed(c)
    \/ SavePayment
    \/ CreatePaymentEvent
    \/ MarkEventAsProcessed

SpecPaymentProcessing == InitWith({NoValue}) /\ [][NextPaymentProcessing]_vars

\* a subscription record as handleSubscriptionActive saved it for the known
\* customer, in the status later events have left it in
ExistingSubscription(id, status) ==
    [SubscriptionRowOf(KnownCustomer,
                       SubscriptionObject(id, "cus_1", FirstPeriod.start, FirstPeriod.end,
                                          FALSE, "m1", "active"))
        EXCEPT !.status = status]

\* one event for every handler that updates a subscription, all for sub_1,
\* unsigned; a plan change with a status and one whose status is null
SubscriptionUpdateRequests ==
    {[body |-> b, signature |-> NoSignature] : b \in
    {RenewedBody("sub_1"),
     EventBody("evt_3", "subscription.plan_changed",
               SubscriptionObject("sub_1", NoValue, NoNum, NoNum, FALSE, "m2", "trialing")),
     EventBody("evt_3", "subscription.plan_changed",
               SubscriptionObject("sub_1", NoValue, NoNum, NoNum, FALSE, "", Null))}
    \cup {EventBody("evt_4", type, IdOnly("sub_1")) :
             type \in {"subscription.on_hold", "subscription.cancelled",
                       "subscription.failed", "subscription.expired"}}}

\* the update handlers against records that exist: sub_1 in some status and
\* sub_2 active, unsigned
InitSubscriptionUpdates ==
    /\ webhookSecret = NoValue
    /\ customers = {KnownCustomer}
    /\ \E status \in {"active", "expired"} :
          subscriptions = <<ExistingSubscription("sub_1", status),
                            ExistingSubscription("sub_2", "active")>>
    /\ payments = <<>>
    /\ payment_events = <<>>
    /\ calls = [c \in Calls |-> IdleCall]
    /\ faults = 0

NextSubscriptionUpdates ==
    \/ \E c \in Calls :
          \/ Receive(c, SubscriptionUpdateRequests)
          \/ LogEvent(c)
          \/ SubscriptionUpdate(c)
          \/ MarkProcessed(c)
    \/ CreateSubscription
    \/ ServiceUpdateSubscription
    \/ MarkEventAsProcessed

SpecSubscriptionUpdates == InitSubscriptionUpdates /\ [][NextSubscriptionUpdates]_vars

\* the signature the provider computes for a payload under a key
CorrectSignature(secret, body) == SignatureOf(HexEncode(Hmac(secret, body)))

\* events whose outcome does not depend on the tables (no JSON, an unhandled
\* type, an activation for an unknown customer, an update without a record),
\* each of them with no signature argument, with the empty string, and signed
UnsignedRequests ==
    LET UnsignedBodies ==
            {MalformedBody, BareBody("evt_5", "invoice.created"),
             ActiveBody("sub_1", "cus_2", FALSE, NoValue),
             EventBody("evt_4", "subscription.cancelled", IdOnly("sub_1"))}
    IN  {[body |-> b, signature |-> sig] :
            b \in UnsignedBodies, sig \in {NoSignature, SignatureOf(<<>>)}}
        \cup {[body |-> b, signature |-> CorrectSignature(k, b)] :
                 b \in UnsignedBodies, k \in Secrets}

\* unsigned and signed requests side by side, a secret configured
NextUnsigned ==
    \E c \in Calls :
        \/ Receive(c, UnsignedRequests)
        \/ LogEvent(c)
        \/ SubscriptionCustomer(c)
        \/ SubscriptionUpdate(c)
        \/ MarkProcessed(c)

SpecUnsigned == InitWith(Secrets) /\ [][NextUnsigned]_vars

\* the awaited call invocation c is waiting for returns or fails
Proceed(c) ==
    \/ LogEvent(c)
    \/ SubscriptionCustomer(c)
    \/ SubscriptionSave(c)
    \/ SubscriptionUpdate(c)
    \/ PaymentFind(c)
    \/ PaymentWrite(c)
    \/ PaymentAudit(c)
    \/ MarkProcessed(c)

\* requests that end at the entry (a body that is no JSON, a rejected
\* signature) and one event for each group of store calls
TerminationRequests ==
    {[body |-> MalformedBody, signature |-> NoSignature],
     [body |-> BareBody("evt_5", "invoice.created"),
      signature |-> CorrectSignature("whsec_1", MalformedBody)],
     [body |-> ActiveBody("sub_1", "cus_1", FALSE, NoValue), signature |-> NoSignature],
     [body |-> EventBody("evt_4", "subscription.cancelled", IdOnly("sub_1")),
      signature |-> NoSignature],
     [body |-> EventBody("evt_12", "payment.pending",
                         PaymentObject("pay_1", NoValue, "pending", NoValue)),
      signature |-> NoSignature]}

NextFair == \E c \in Calls : Receive(c, TerminationRequests) \/ Proceed(c)

\* handleWebhook where awaited calls eventually return or fail: as long as
\* some invocation waits for a call, some such call is eventually answered
SpecFair == InitWith(Secrets) /\ [][NextFair]_vars /\ WF_vars(\E c \in Calls : Proceed(c))

\* keys a sender may sign with: the configured secret and another one
SigningKeys == {"whsec_1", "whsec_2"}

\* payloads offered to the verifier; it reads the raw text, JSON or not
VerifyBodies ==
    {MalformedBody, BareBody("evt_5", "invoice.created"),
     EventBody("evt_4", "subscription.cancelled", IdOnly("sub_1"))}

\* signature arguments for a payload: none, empty, not hex, and the hex MAC of
\* every payload under every key, bare or with the sha256= prefix; the MAC of
\* the payload itself also followed by characters that are not hex
VerifySignatures(body) ==
    {NoSignature, SignatureOf(<<>>), SignatureOf(<<Garbage>>)}
    \cup {SignatureOf(pre \o HexEncode(Hmac(k, b))) :
             pre \in {<<>>, <<Sha256Prefix>>}, k \in SigningKeys, b \in VerifyBodies}
    \cup {SignatureOf(HexEncode(Hmac(k, body)) \o <<Garbage>>) : k \in SigningKeys}

VerifyRequests ==
    UNION {{[body |-> b, signature |-> sig] : sig \in VerifySignatures(b)} : b \in VerifyBodies}

\* the signature gate over every payload and signature, under either key
NextVerify == \E c \in Calls : Receive(c, VerifyRequests)

SpecVerify == InitWith(SigningKeys) /\ [][NextVerify]_vars

\* HTTP methods of incoming requests
Methods == {"POST", "GET", "PUT"}

\* the two signature headers of a request
Headers(dodo, xdodo) == [dodo |-> dodo, xdodo |-> xdodo]

\* requests to the endpoint, with a body that is not JSON, an event no handler
\* takes or an update of a subscription that has no record: no signature header, the signature of the body
\* or of another body in dodo-signature, the signature of the body in
\* x-dodo-signature next to an absent or empty dodo-signature, and a
\* signature that is not hex
EndpointRequests ==
    UNION {{[body |-> b, headers |-> h] :
               h \in {Headers(NoSignature, NoSignature),
                      Headers(SignatureOf(HexEncode(Hmac("whsec_1", b))), NoSignature),
                      Headers(SignatureOf(<<>>), SignatureOf(HexEncode(Hmac("whsec_1", b)))),
                      Headers(SignatureOf(HexEncode(Hmac("whsec_1", OtherBody(b)))), NoSignature),
                      Headers(NoSignature, SignatureOf(<<Garbage>>))}} :
           b \in VerifyBodies}

\* the endpoint with and without a configured secret
NextEndpoint ==
    \E c \in Calls :
        \/ Serve(c, Methods, EndpointRequests)
        \/ LogEvent(c)
        \/ SubscriptionUpdate(c)
        \/ MarkProcessed(c)

SpecEndpoint == InitWith({NoValue, "whsec_1"}) /\ [][NextEndpoint]_vars

-----------------------------------------------------------------------------
(* Vocabulary of the properties *)

Started(call) == call.pc # "idle"

Done(call) == call.pc = "done"

\* the signature gate of handleWebhook rejects the request
SignatureRejected(call) ==
    /\ IsTruthySignature(call.signature)
    /\ ~verifyWebhookSignature(webhookSecret, call.body, call.signature.text)

\* the store / provider calls an invocation has made, in order
Ops(call) == [i \in 1..Len(call.trace) |-> call.trace[i].op]

\* how many calls of `op` by the invocation returned without error
Succeeded(call, op) ==
    Cardinality({i \in 1..Len(call.trace) : call.trace[i].op = op /\ call.trace[i].ok})

\* a store or provider failure hit the invocation
Faulted(call) == \E i \in 1..Len(call.trace) : call.trace[i].fault

\* the store calls that write customer, subscription or payment records
RecordWrites == {"saveSubscription", "updateSubscription", "writePayment"}

WritesRecords(call) == \E i \in 1..Len(call.trace) : call.trace[i].op \in RecordWrites

\* the payment_events row logPaymentEvent inserted for the invocation
LogRow(call) == payment_events[call.eventLogId]

\* the step is a step of a handleWebhook invocation, not one of another writer
WebhookStep == calls' # calls

-----------------------------------------------------------------------------
(* C1..C6: the ingestion path, under Spec *)

\* C1: a request whose signature fails verification returns
\* {success: false, error: 'Invalid signature'} at once: the invocation makes
\* no store call at all, so it inserts no event row, dispatches no handler and
\* writes no customer, subscription or payment record.
C1_InvalidSignatureRejected ==
    \A c \in Calls :
        (Started(calls[c]) /\ SignatureRejected(calls[c])) =>
            /\ Done(calls[c])
            /\ calls[c].result = Failure("Invalid signature")
            /\ calls[c].trace = <<>>
            /\ calls[c].eventLogId = 0

\* C1 witness: a rejected request has returned while another invocation has
\* logged its event.
C1_Witness ==
    \E c, d \in Calls :
        /\ Done(calls[c]) /\ SignatureRejected(calls[c])
        /\ calls[d].eventLogId # 0

\* C2 as stated: every invocation that returned success: true (valid JSON, the
\* request accepted, no store failure) has made exactly one insert into
\* payment_events.
C2_ExactlyOneInsert ==
    \A c \in Calls :
        (Done(calls[c]) /\ calls[c].result.success) =>
            Succeeded(calls[c], "logPaymentEvent") + Succeeded(calls[c], "savePaymentEvent") = 1

\* C2 amended: an invocation that passes the signature gate with a body that
\* parses to an event object with a type calls logPaymentEvent exactly once,
\* which inserts exactly one row unless the store call fails; a payment.* event
\* inserts one more row, the audit row of savePaymentEvent, into the same
\* table.  A request rejected for its signature, a JSON null body and an event
\* whose type is absent or null insert nothing.  The rows handleWebhook adds to
\* payment_events are exactly the rows these calls inserted.
C2_InsertsPerCall ==
    /\ \A c \in Calls :
          LET call   == calls[c]
              logs   == Succeeded(call, "logPaymentEvent")
              audits == Succeeded(call, "savePaymentEvent")
              typed  == /\ ~SignatureRejected(call) /\ call.body.kind = "object"
                        /\ call.body.type \notin {NoValue, Null}
          IN  /\ logs <= 1 /\ audits <= 1
              /\ ~typed => (logs = 0 /\ audits = 0 /\ ~WritesRecords(call))
              /\ (Started(call) /\ typed /\ call.pc # "logPaymentEvent") =>
                    /\ Len(call.trace) >= 1 /\ call.trace[1].op = "logPaymentEvent"
                    /\ logs = IF call.trace[1].fault THEN 0 ELSE 1
              /\ (call.event.type \notin PaymentTypes) => audits = 0
              /\ (Done(call) /\ call.result.success) =>
                    /\ logs = 1
                    /\ audits = IF call.event.type \in PaymentTypes THEN 1 ELSE 0
    /\ LET \* all (invocation, position) pairs of successful calls of `op`
           AllSucceeded(op) ==
               {p \in UNION {{<<c, i>> : i \in 1..Len(calls[c].trace)} : c \in Calls} :
                   calls[p[1]].trace[p[2]].op = op /\ calls[p[1]].trace[p[2]].ok}
       IN  /\ Cardinality(Rows("logPaymentEvent")) = Cardinality(AllSucceeded("logPaymentEvent"))
           /\ Cardinality(Rows("savePaymentEvent")) = Cardinality(AllSucceeded("savePaymentEvent"))

\* C2 witness: a payment event has been processed successfully and has left
\* two rows in payment_events, its log row and its audit row.
C2_Witness ==
    \E c \in Calls :
        /\ Done(calls[c]) /\ calls[c].result.success
        /\ calls[c].event.type \in PaymentTypes
        /\ Succeeded(calls[c], "logPaymentEvent") = 1
        /\ Succeeded(calls[c], "savePaymentEvent") = 1
        /\ Cardinality(Rows("savePaymentEvent")) >= 1

\* C3: when handleWebhook returns success: true, the row it logged has
\* processed = true and processed_at set, the update that set them was the
\* invocation's last store call, and until the invocation returns handleWebhook
\* has not marked the row it logged (a row that is processed earlier was marked
\* from outside, by markEventAsProcessed).
C3_SuccessMeansProcessed ==
    \A c \in Calls :
        LET call == calls[c]
        IN  /\ (Done(call) /\ call.result.success) =>
                  /\ call.eventLogId \in 1..Len(payment_events)
                  /\ LogRow(call).processed
                  /\ LogRow(call).processed_at \in {Now, OtherNow}
                  /\ call.trace[Len(call.trace)].op = "markEventProcessed"
                  /\ Succeeded(call, "markEventProcessed") = 1
            /\ (call.eventLogId # 0 /\ ~Done(call)) =>
                  /\ LogRow(call).processed_at # Now
                  /\ LogRow(call).processed <=> (LogRow(call).processed_at = OtherNow)

\* C3 witness: a handler that writes a record has run and the invocation has
\* returned success.
C3_Witness ==
    \E c \in Calls :
        /\ Done(calls[c]) /\ calls[c].result.success
        /\ WritesRecords(calls[c])
        /\ LogRow(calls[c]).processed

\* the dispatched handler threw: the event was logged, and the invocation
\* failed before it called markEventProcessed
HandlerThrew(call) ==
    /\ Done(call) /\ call.eventLogId # 0
    /\ call.trace[Len(call.trace)].op # "markEventProcessed"

\* the row the invocation logged has not been marked by handleWebhook (its
\* markEventProcessed was not reached or failed): the row is unprocessed, or
\* it was marked from outside by markEventAsProcessed
LeftUnprocessed(call) ==
    /\ Succeeded(call, "markEventProcessed") = 0
    /\ LogRow(call).processed_at # Now
    /\ LogRow(call).processed <=> (LogRow(call).processed_at = OtherNow)

\* C4: when the dispatched handler throws, handleWebhook returns
\* {success: false, error: <message>}, and it leaves the row it logged with
\* processed = false and retry_count = 0.
C4_HandlerThrowLeavesUnprocessed ==
    \A c \in Calls :
        HandlerThrew(calls[c]) =>
            /\ ~calls[c].result.success
            /\ calls[c].result.error # NoValue
            /\ LeftUnprocessed(calls[c])
            /\ LogRow(calls[c]).retry_count = 0

\* C4 witness: a subscription update handler threw because no subscription
\* matched, after the event was logged.
C4_Witness ==
    \E c \in Calls :
        /\ HandlerThrew(calls[c])
        /\ calls[c].result.error = "Failed to update subscription"
        /\ ~Faulted(calls[c])
        /\ ~LogRow(calls[c]).processed

\* C5: a body that is not JSON, arriving unsigned or with a valid signature,
\* returns {success: false, error: <message>} before any store call: no event
\* row is inserted and no record is written.
C5_MalformedBodyRejected ==
    \A c \in Calls :
        (Started(calls[c]) /\ calls[c].body.kind = "malformed" /\ ~SignatureRejected(calls[c])) =>
            /\ Done(calls[c])
            /\ ~calls[c].result.success
            /\ calls[c].result.error = "SyntaxError"
            /\ calls[c].trace = <<>>
            /\ calls[c].eventLogId = 0

\* C5 witness: a malformed body with a valid signature has been rejected.
C5_Witness ==
    \E c \in Calls :
        /\ Done(calls[c]) /\ calls[c].body.kind = "malformed"
        /\ IsTruthySignature(calls[c].signature) /\ ~SignatureRejected(calls[c])
        /\ calls[c].result.error = "SyntaxError"

\* C6: an event whose type matches no case of the switch is not an error.
\* When the two event-store calls succeed, handleWebhook returns
\* {success: true, message: 'Event logged but not processed'}, its only store
\* calls are the insert of one event row and the update that marks that row
\* processed, and it writes no customer, subscription or payment record.  In
\* every case its store calls are at most those two.
C6_UnhandledTypeIsLoggedSuccess ==
    \A c \in Calls :
        LET call == calls[c]
        IN  (Started(call) /\ ~SignatureRejected(call) /\ call.body.kind = "object"
             /\ call.body.type = "invoice.created") =>
                /\ ~WritesRecords(call)
                /\ \A i \in 1..Len(call.trace) :
                      call.trace[i].op = IF i = 1 THEN "logPaymentEvent" ELSE "markEventProcessed"
                /\ Len(call.trace) <= 2
                /\ (Done(call) /\ ~Faulted(call)) =>
                      /\ call.result = Success(DefaultMessage)
                      /\ Succeeded(call, "logPaymentEvent") = 1
                      /\ LogRow(call).processed
                      /\ LogRow(call).event_type = "invoice.created"
                      /\ LogRow(call).by = "logPaymentEvent"

\* C6 witness: an invoice.created event has returned success with the
\* logged-but-not-processed message.
C6_Witness ==
    \E c \in Calls :
        /\ Done(calls[c]) /\ calls[c].body.type = "invoice.created"
        /\ calls[c].result = Success(DefaultMessage)
        /\ LogRow(calls[c]).processed

-----------------------------------------------------------------------------
(* C7..C10: subscription reconciliation, under SpecSubscriptions *)

\* the rows of the subscriptions table for a provider subscription id
SubscriptionRows(tbl, id) == {tbl[i] : i \in Matching(tbl, "dodo_subscription_id", id)}

\* the last store / provider call of an invocation
LastCall(call) == call.trace[Len(call.trace)]

\* C7 as stated: at most one subscription row per provider subscription id, at
\* most one payment row per provider payment id, and reconciliation is an
\* upsert: a saveSubscription the store was able to serve is never turned
\* down because a row with that provider id exists.
C7_UniqueByUpsert ==
    /\ \A i, j \in 1..Len(subscriptions) :
          subscriptions[i].dodo_subscription_id = subscriptions[j].dodo_subscription_id => i = j
    /\ \A i, j \in 1..Len(payments) :
          payments[i].dodo_payment_id = payments[j].dodo_payment_id => i = j
    /\ \A c \in Calls : \A i \in 1..Len(calls[c].trace) :
          (calls[c].trace[i].op = "saveSubscription" /\ ~calls[c].trace[i].fault) =>
              calls[c].trace[i].ok

\* C8 as stated: when the saveSubscription of a subscription.active event for
\* a known customer has been served by the store, there is one row for the
\* provider subscription id and it has status active and the period bounds,
\* cancel flag and metadata of that event (created if absent, else updated).
C8_ActiveCreatesOrUpdates ==
    [][\A c \in Calls :
          (/\ calls[c].pc = "saveSubscription"
           /\ calls'[c].pc # "saveSubscription"
           /\ ~LastCall(calls'[c]).fault) =>
              LET obj  == calls[c].event.obj
                  rows == SubscriptionRows(subscriptions', obj.id)
                  \* the row carries what the event says
                  ReflectsActive(row) ==
                      /\ row.status = "active"
                      /\ row.current_period_start = EpochSecondsToISO(obj.current_period_start)
                      /\ row.current_period_end = EpochSecondsToISO(obj.current_period_end)
                      /\ row.cancel_at_period_end = obj.cancel_at_period_end
                      /\ row.metadata = MetadataOrEmpty(obj)
              IN  /\ Cardinality(rows) = 1
                  /\ \A row \in rows : ReflectsActive(row)]_vars

\* C9: a subscription.active event whose provider customer id matches no
\* customer row never reaches saveSubscription, so it creates no subscription;
\* when no store call fails its handler returns the message 'Customer not
\* found', the event row is marked processed and handleWebhook returns
\* success: true.  Every subscription row belongs to a customer row.
C9_UnknownCustomerCreatesNothing ==
    /\ \A c \in Calls :
          LET call == calls[c]
          IN  (Started(call) /\ call.event.type = "subscription.active" /\ call.event.hasData
               /\ \A r \in customers : r.dodo_customer_id # call.event.obj.customer) =>
                  /\ \A i \in 1..Len(call.trace) : call.trace[i].op \notin RecordWrites
                  /\ call.pc # "saveSubscription"
                  /\ (Done(call) /\ ~Faulted(call)) =>
                        /\ call.result = Success("Customer not found")
                        /\ LogRow(call).processed
    /\ \A i \in 1..Len(subscriptions) :
          \E r \in customers : /\ r.id = subscriptions[i].customer_id
                               /\ r.user_id = subscriptions[i].user_id

\* C9 witness: an unknown-customer activation has returned success with the
\* message, while the same provider subscription id has no row.
C9_Witness ==
    \E c \in Calls :
        /\ Done(calls[c]) /\ calls[c].event.type = "subscription.active"
        /\ \A r \in customers : r.dodo_customer_id # calls[c].event.obj.customer
        /\ calls[c].result = Success("Customer not found")
        /\ LogRow(calls[c]).processed
        /\ SubscriptionRows(subscriptions, calls[c].event.obj.id) = {}

\* a subscription.active event whose invocation found the customer it names
\* and has returned, with no store failure
ActivatedFor(call, id) ==
    /\ Done(call) /\ call.event.type = "subscription.active" /\ call.event.hasData
    /\ call.event.obj.id = id /\ call.customer # <<>> /\ ~Faulted(call)
    /\ PeriodsValid(call.event.obj)

\* C10: once a subscription.active event for a known customer has been
\* processed, the update of a subscription.renewed event for the same provider
\* subscription id succeeds whenever the store serves it, and leaves exactly
\* one row for that id, with status active and the period bounds of the
\* renewed event.
C10_RenewedAfterActive ==
    [][\A b \in Calls :
          (/\ calls[b].pc = "updateSubscription"
           /\ calls[b].event.type = "subscription.renewed"
           /\ calls'[b].pc # "updateSubscription"
           /\ ~LastCall(calls'[b]).fault
           /\ \E a \in Calls \ {b} : ActivatedFor(calls[a], calls[b].event.obj.id)) =>
              LET obj  == calls[b].event.obj
                  rows == SubscriptionRows(subscriptions', obj.id)
              IN  /\ calls'[b].pc = "markEventProcessed"
                  /\ calls'[b].message = "Subscription renewal recorded"
                  /\ Cardinality(Matching(subscriptions', "dodo_subscription_id", obj.id)) = 1
                  /\ \A row \in rows :
                        /\ row.status = "active"
                        /\ row.current_period_start = EpochSecondsToISO(obj.current_period_start)
                        /\ row.current_period_end = EpochSecondsToISO(obj.current_period_end)]_vars

\* C10 witness: an activation and then a renewal with later period bounds have
\* both returned success, and the one row of the subscription carries the
\* renewed bounds.
C10_Witness ==
    \E a, b \in Calls :
        /\ ActivatedFor(calls[a], "sub_1")
        /\ calls[a].result = Success("Subscription activated and saved")
        /\ Done(calls[b]) /\ calls[b].event.type = "subscription.renewed"
        /\ calls[b].event.obj.id = "sub_1"
        /\ calls[b].event.obj.current_period_start > calls[a].event.obj.current_period_start
        /\ calls[b].event.obj.current_period_end > calls[a].event.obj.current_period_end
        /\ calls[b].result = Success("Subscription renewal recorded")
        /\ Cardinality(Matching(subscriptions, "dodo_subscription_id", "sub_1")) = 1
        /\ \A row \in SubscriptionRows(subscriptions, "sub_1") :
              /\ row.current_period_start = EpochSecondsToISO(NextPeriod.start)
              /\ row.current_period_end = EpochSecondsToISO(NextPeriod.end)
              /\ row.current_period_start.year = 2023 /\ row.current_period_end.year = 2024

-----------------------------------------------------------------------------
(* C11, C12: concurrent deliveries *)

\* C11 as stated: when invocations reconcile the same provider payment id,
\* whatever the interleaving of their store calls, each of them that the
\* store serves without failure completes with success, and one payment row
\* per provider id is left.
C11_ConcurrentReconcileCompletes ==
    /\ \A c \in Calls :
          (Done(calls[c]) /\ ~Faulted(calls[c]) /\ calls[c].event.type \in PaymentTypes) =>
              calls[c].result.success
    /\ \A i, j \in 1..Len(payments) :
          payments[i].dodo_payment_id = payments[j].dodo_payment_id => i = j

\* the rows of payment_events that logPaymentEvent inserted for a provider event id
LoggedRows(id) ==
    {i \in 1..Len(payment_events) :
        payment_events[i].dodo_event_id = id /\ payment_events[i].by = "logPaymentEvent"}

\* C12: there is no idempotency gate.  Every delivery of an event that the
\* store serves inserts its own row carrying the provider event id, whatever
\* rows with that id exist and whether or not they are processed, so the rows
\* logged for an id are as many as its served deliveries; and every logged
\* delivery enters its handler.
C12_NoIdempotencyGate ==
    /\ \A c \in Calls :
          LET call == calls[c]
              \* the first store call of the handler an event type dispatches to
              FirstHandlerCall(type) ==
                  IF HandlerOf(type) = "handleSubscriptionActive" THEN "getCustomerByDodoId"
                  ELSE IF HandlerOf(type) = "handleSubscriptionUpdate" THEN "updateSubscription"
                  ELSE IF HandlerOf(type) = "processPaymentWebhook" THEN PaymentEntry(type)
                  ELSE "markEventProcessed"
          IN  (Started(call) /\ call.body.kind = "object" /\ call.body.type # NoValue
               /\ Len(call.trace) >= 1) =>
                  /\ call.trace[1].op = "logPaymentEvent"
                  /\ call.trace[1].ok = ~call.trace[1].fault
                  /\ call.trace[1].ok =>
                        /\ call.eventLogId \in LoggedRows(call.event.id)
                        /\ \A d \in Calls \ {c} : calls[d].eventLogId # call.eventLogId
                        /\ \/ call.pc = FirstHandlerCall(call.event.type)
                           \/ /\ Len(call.trace) >= 2
                              /\ call.trace[2].op = FirstHandlerCall(call.event.type)
    /\ \A c \in Calls :
          Started(calls[c]) =>
              Cardinality(LoggedRows(calls[c].event.id))
                  = Cardinality({d \in Calls : /\ calls[d].eventLogId # 0
                                              /\ calls[d].event.id = calls[c].event.id})

\* C12 witness: the same subscription.active event was delivered twice; both
\* deliveries logged a row with its provider event id, both rows are processed
\* and both deliveries ran the handler up to saveSubscription.
C12_Witness ==
    \E c, d \in Calls :
        /\ c # d /\ calls[c].body = calls[d].body
        /\ Done(calls[c]) /\ Done(calls[d])
        /\ calls[c].event.type = "subscription.active"
        /\ Cardinality(LoggedRows(calls[c].event.id)) >= 2
        /\ LogRow(calls[c]).processed /\ LogRow(calls[d]).processed
        /\ \E i \in 1..Len(calls[c].trace) : calls[c].trace[i].op = "saveSubscription"
        /\ \E i \in 1..Len(calls[d].trace) : calls[d].trace[i].op = "saveSubscription"

-----------------------------------------------------------------------------
(* C13, C14, C16: the signature verifier and the HTTP endpoint *)

\* C13: with a secret configured, for every body the verifier returns true for
\* the hex HMAC of that body under the secret, with or without the sha256=
\* prefix, and handleWebhook lets the request pass; it returns false for the
\* hex HMAC of any other body, and handleWebhook rejects the request.
C13_VerifierAcceptsExactlyOwnMac ==
    \A c \in Calls :
        LET call == calls[c]
            \* the hex MAC of a payload under a key, bare or with the sha256= prefix
            SignaturesOver(key, payload) ==
                {SignatureOf(pre \o HexEncode(Hmac(key, payload))) :
                    pre \in {<<>>, <<Sha256Prefix>>}}
        IN  (Started(call) /\ webhookSecret # NoValue) =>
               /\ call.signature \in SignaturesOver(webhookSecret, call.body) =>
                     /\ verifyWebhookSignature(webhookSecret, call.body, call.signature.text)
                     /\ call.result # Failure("Invalid signature")
               /\ \A other \in VerifyBodies \ {call.body} :
                     call.signature \in SignaturesOver(webhookSecret, other) =>
                        /\ ~verifyWebhookSignature(webhookSecret, call.body, call.signature.text)
                        /\ call.result = Failure("Invalid signature")

\* C13 witness: one request signed with the prefixed MAC of its body has
\* passed the gate, another signed with the MAC of a different body was
\* rejected.
C13_Witness ==
    \E c, d \in Calls :
        /\ calls[c].signature =
              SignatureOf(<<Sha256Prefix>> \o HexEncode(Hmac(webhookSecret, calls[c].body)))
        /\ calls[c].pc = "logPaymentEvent"
        /\ Done(calls[d]) /\ calls[d].result = Failure("Invalid signature")
        /\ \E other \in VerifyBodies \ {calls[d].body} :
              calls[d].signature = SignatureOf(HexEncode(Hmac(webhookSecret, other)))

\* C14: when no secret is configured the verifier returns true for every body
\* and signature, so no request is rejected for its signature and an event
\* that arrives with any signature is processed like an unsigned one: when no
\* store call fails, the unhandled event ends logged, processed and with
\* success: true.
C14_NoSecretAcceptsEverySignature ==
    webhookSecret = NoValue =>
        \A c \in Calls :
            LET call == calls[c]
                \* the endpoint passed the request on to handleWebhook
                Invoked == call.http.method = "POST" /\ call.http.status # 500 /\ Started(call)
            IN  Invoked =>
                   /\ verifyWebhookSignature(webhookSecret, call.body, call.signature.text)
                   /\ ~SignatureRejected(call)
                   /\ call.result # Failure("Invalid signature")
                   /\ JsonParses(call.body) => call.event = JsonParse(call.body)
                   /\ (Done(call) /\ ~Faulted(call) /\ call.event.type = "invoice.created") =>
                         /\ call.result = Success(DefaultMessage)
                         /\ LogRow(call).processed

\* C14 witness: with no secret configured, an event whose signature header
\* holds the MAC of another body, and one whose header is not hex, were both
\* processed.
C14_Witness ==
    /\ webhookSecret = NoValue
    /\ \E c, d \in Calls :
          /\ Done(calls[c]) /\ calls[c].result.success /\ LogRow(calls[c]).processed
          /\ calls[c].signature = SignatureOf(HexEncode(Hmac("whsec_1", OtherBody(calls[c].body))))
          /\ Done(calls[d]) /\ calls[d].result.success /\ LogRow(calls[d]).processed
          /\ calls[d].signature = SignatureOf(<<Garbage>>)

\* C16: a request that is not a POST is answered 405 and handleWebhook is not
\* invoked for it (no body parsed, no store call, no result); a POST whose
\* handleWebhook call returned is answered 200 exactly when the result has
\* success true and 400 when it has success false; 500 answers only an
\* exception outside handleWebhook, which then never ran; no answer is given
\* before handleWebhook returns.
C16_StatusMapping ==
    \A c \in Calls :
        LET call == calls[c]
        IN  Started(call) =>
               /\ call.http.method # "POST" <=> call.http.status = 405
               /\ call.http.status \in {405, 500} =>
                     /\ Done(call) /\ call.trace = <<>> /\ call.eventLogId = 0
                     /\ call.result = NoResult /\ call.event = NoEvent
               /\ call.http.status = 200 <=>
                     (Done(call) /\ call.result.returned /\ call.result.success)
               /\ call.http.status = 400 <=>
                     (Done(call) /\ call.result.returned /\ ~call.result.success)
               /\ call.http.status \in {0, 200, 400, 405, 500}
               /\ call.http.status = 0 <=> ~Done(call)

\* C16 witness: the endpoint has answered 200 to a POST whose event was
\* processed and 400 to a POST whose handler failed after the event was logged.
C16_Witness ==
    \E c, d \in Calls :
        /\ calls[c].http = [method |-> "POST", status |-> 200]
        /\ calls[c].result.success /\ LogRow(calls[c]).processed
        /\ calls[d].http = [method |-> "POST", status |-> 400]
        /\ calls[d].eventLogId # 0 /\ ~calls[d].result.success

\* the period bounds of the scenario, as ISO-8601 UTC fields
ScenarioStart ==
    [year |-> 2023, month |-> 11, day |-> 14, hour |-> 22, minute |-> 13, second |-> 20, ms |-> 0]

ScenarioEnd ==
    [year |-> 2023, month |-> 12, day |-> 14, hour |-> 22, minute |-> 13, second |-> 20, ms |-> 0]

ScenarioEndAsStated ==
    [year |-> 2023, month |-> 12, day |-> 15, hour |-> 2, minute |-> 46, second |-> 40, ms |-> 0]

\* the subscription.active event of the scenario is saved by this step
SavesScenario(c) ==
    /\ calls[c].pc = "saveSubscription"
    /\ calls[c].body = ActiveBody("sub_1", "cus_1", FALSE, NoValue)
    /\ calls[c].body.obj.current_period_start = 1700000000
    /\ calls[c].body.obj.current_period_end = 1702592000
    /\ calls'[c].pc = "markEventProcessed"
    /\ calls'[c].message = "Subscription activated and saved"

\* the row the step added to subscriptions
NewSubscription == subscriptions'[Len(subscriptions')]

\* C15 as stated: the scenario event yields a new subscription row sub_1 with
\* status active, current_period_start 2023-11-14T22:13:20Z and
\* current_period_end 2023-12-15T02:46:40Z.
C15_ScenarioAsStated ==
    [][\A c \in Calls :
          SavesScenario(c) =>
              /\ Len(subscriptions') = Len(subscriptions) + 1
              /\ NewSubscription.dodo_subscription_id = "sub_1"
              /\ NewSubscription.status = "active"
              /\ NewSubscription.current_period_start = ScenarioStart
              /\ NewSubscription.current_period_end = ScenarioEndAsStated]_vars

\* C15 amended: the scenario event yields a new subscription row sub_1 with
\* status active, current_period_start 2023-11-14T22:13:20.000Z and
\* current_period_end 2023-12-14T22:13:20.000Z, the instants 1700000000 and
\* 1702592000 seconds (times 1000 ms) after the epoch, thirty days apart.
C15_ScenarioRow ==
    [][\A c \in Calls :
          SavesScenario(c) =>
              /\ Len(subscriptions') = Len(subscriptions) + 1
              /\ NewSubscription.dodo_subscription_id = "sub_1"
              /\ NewSubscription.customer_id = KnownCustomer.id
              /\ NewSubscription.status = "active"
              /\ NewSubscription.current_period_start = ScenarioStart
              /\ NewSubscription.current_period_end = ScenarioEnd]_vars

\* C15 witness: the scenario event has been processed with success and its
\* row is stored with the two timestamps.
C15_Witness ==
    \E c \in Calls :
        /\ Done(calls[c]) /\ calls[c].body = ActiveBody("sub_1", "cus_1", FALSE, NoValue)
        /\ calls[c].result = Success("Subscription activated and saved")
        /\ \E i \in 1..Len(subscriptions) :
              /\ subscriptions[i].dodo_subscription_id = "sub_1"
              /\ subscriptions[i].current_period_start = ScenarioStart
              /\ subscriptions[i].current_period_end = ScenarioEnd

-----------------------------------------------------------------------------
(* C17..C20: payment reconciliation, under SpecPaymentOutcome *)

\* the rows of the payments table for a provider payment id
PaymentRows(tbl, id) == {tbl[i] : i \in Matching(tbl, "dodo_payment_id", id)}

\* the update-or-insert of updatePaymentStatus is served by this step
WritesPayment(c) ==
    /\ calls[c].pc = "writePayment"
    /\ calls'[c].pc # "writePayment"
    /\ ~LastCall(calls'[c]).fault

\* C17: reconciliation of a payment is create-or-update keyed by the provider
\* payment id.  When the write of updatePaymentStatus for an event that carries
\* a payment id is served and its lookup still describes the table, then: if
\* there was no row for the id, exactly
\* one is created, with the status of the event, amount 0 and currency USD;
\* if there was one, its status is set to the status of the event and no row
\* is added.  There is never more than one row per provider payment id.
C17_CreateOrUpdate ==
    [][\A c \in Calls :
          LET id     == PaymentIdOf(calls[c].event.obj)
              status == PaymentStatusOf(calls[c].event.type)
              before == PaymentRows(payments, id)
              after  == PaymentRows(payments', id)
          IN  (/\ WritesPayment(c) /\ id \notin {NoValue, Null}
               /\ calls[c].existingPayment = (before # {})) =>
                 /\ calls'[c].pc = "savePaymentEvent"
                 /\ Cardinality(Matching(payments', "dodo_payment_id", id)) = 1
                 /\ \A row \in after : row.status = status
                 /\ IF before = {}
                    THEN /\ Len(payments') = Len(payments) + 1
                         /\ \A row \in after : row.amount = 0 /\ row.currency = "USD"
                    ELSE /\ Len(payments') = Len(payments)
                         /\ \A row \in after : \E old \in before :
                               row = [old EXCEPT !.status = status]
                 /\ \A i, j \in 1..Len(payments') :
                       payments'[i].dodo_payment_id = payments'[j].dodo_payment_id => i = j]_vars

\* C17 witness: a payment.failed event created the row for pay_1 and a later
\* payment.succeeded event for pay_1 found it and set its status; there is one
\* row, with the minimal data.
C17_Witness ==
    \E c, d \in Calls :
        /\ Done(calls[c]) /\ calls[c].result.success
        /\ calls[c].event.type = "payment.failed" /\ ~calls[c].existingPayment
        /\ Done(calls[d]) /\ calls[d].result.success
        /\ calls[d].event.type = "payment.succeeded" /\ calls[d].existingPayment
        /\ Len(payments) = 1
        /\ payments[1].dodo_payment_id = "pay_1" /\ payments[1].status = "succeeded"
        /\ payments[1].amount = 0 /\ payments[1].currency = "USD"

\* C18 as stated: once the write of a payment.failed or payment.declined event
\* is served, the payment row for its provider payment id has status failed
\* and carries the failure_reason of the event.
C18_FailedCarriesReason ==
    [][\A c \in Calls :
          (WritesPayment(c) /\ IsFailureType(calls[c].event.type)
           /\ calls'[c].pc = "savePaymentEvent") =>
              \A row \in PaymentRows(payments', PaymentIdOf(calls[c].event.obj)) :
                  /\ row.status = "failed"
                  /\ row.failure_reason = calls[c].event.obj.failure_reason]_vars

\* the position of the invocation's getPaymentDetails call, when it failed
DetailsFailedAt(call) ==
    {i \in 1..Len(call.trace) : call.trace[i].op = "getPaymentDetails" /\ ~call.trace[i].ok}

\* no call of the invocation other than getPaymentDetails returned an error
OnlyDetailsFailed(call) ==
    \A i \in 1..Len(call.trace) : call.trace[i].op # "getPaymentDetails" => call.trace[i].ok

\* the audit rows savePaymentEvent inserted for a provider payment id
AuditRows(id) ==
    {payment_events[i] : i \in {j \in Rows("savePaymentEvent") : payment_events[j].dodo_event_id = id}}

\* C19: on a payment.failed or payment.declined event a failure of the
\* provider's getPaymentDetails is tolerated.  The invocation goes on with the
\* data of the event; when no store call fails, it writes the payment with
\* status failed, appends an audit row holding the event's failure reason,
\* marks the event processed and returns success: true.
C19_FailureToleratesDetailsError ==
    \A c \in Calls :
        LET call == calls[c]
            id   == PaymentIdOf(call.event.obj)
        IN  (IsFailureType(call.event.type) /\ DetailsFailedAt(call) # {}) =>
               /\ call.details = <<>>
               /\ Done(call) => Len(call.trace) > 2
               /\ (Done(call) /\ OnlyDetailsFailed(call)) =>
                     /\ call.result.success
                     /\ LogRow(call).processed
                     /\ Succeeded(call, "writePayment") = 1
                     /\ Succeeded(call, "savePaymentEvent") = 1
                     /\ PaymentRows(payments, id) # {}
                     /\ (\A d \in Calls \ {c} : ~Started(calls[d])) =>
                           \A row \in PaymentRows(payments, id) : row.status = "failed"
                     /\ \E row \in AuditRows(id) :
                           /\ row.event_type = "payment.failed"
                           /\ row.event_data.status = "failed"
                           /\ row.event_data.failure_reason =
                                 StrOr(call.event.obj.failure_reason, "Unknown error")
                           /\ row.event_data.amount = NumOr(call.event.obj.amount, 0)

\* C19 witness: a payment.failed event whose getPaymentDetails failed has
\* returned success, with its payment row failed and its audit row written.
C19_Witness ==
    \E c \in Calls :
        /\ Done(calls[c]) /\ calls[c].event.type = "payment.failed"
        /\ DetailsFailedAt(calls[c]) # {}
        /\ calls[c].result.success /\ LogRow(calls[c]).processed
        /\ \E row \in PaymentRows(payments, "pay_1") : row.status = "failed"
        /\ \E row \in AuditRows("pay_1") : row.event_data.failure_reason = "card_declined"

\* C20: on a payment.succeeded or payment.completed event a failure of the
\* provider's getPaymentDetails propagates.  It is the last call of the
\* invocation: handleWebhook returns success: false, the invocation neither
\* looks up nor writes a payment, appends no audit row, and it leaves the row
\* it logged unprocessed.
C20_SuccessPropagatesDetailsError ==
    \A c \in Calls :
        LET call == calls[c]
        IN  (call.event.type \in {"payment.succeeded", "payment.completed"}
             /\ DetailsFailedAt(call) # {}) =>
               /\ Done(call) /\ ~call.result.success
               /\ DetailsFailedAt(call) = {Len(call.trace)}
               /\ Ops(call) = <<"logPaymentEvent", "getPaymentDetails">>
               /\ Succeeded(call, "writePayment") = 0
               /\ Succeeded(call, "savePaymentEvent") = 0
               /\ LeftUnprocessed(call) /\ LogRow(call).retry_count = 0

\* C20 witness: a payment.succeeded event whose getPaymentDetails failed has
\* returned success: false; there is no payment row and no audit row, and its
\* event row is unprocessed.
C20_Witness ==
    \E c \in Calls :
        /\ Done(calls[c]) /\ calls[c].event.type = "payment.succeeded"
        /\ DetailsFailedAt(calls[c]) # {}
        /\ ~calls[c].result.success /\ calls[c].result.returned
        /\ payments = <<>> /\ Rows("savePaymentEvent") = {}
        /\ ~LogRow(calls[c]).processed

-----------------------------------------------------------------------------
(* C21: payment events without a case in processPaymentWebhook *)

\* the audit rows an invocation's event accounts for: rows of its provider
\* payment id and its event type
AuditRowsOf(call) ==
    {row \in AuditRows(PaymentIdOf(call.event.obj)) : row.event_type = call.event.type}

\* a payment.processing event has been handled with no store failure
ProcessingHandled(call) ==
    Done(call) /\ call.event.type = "payment.processing" /\ ~Faulted(call)

\* C21 as stated: a payment.processing event does not fail, changes no payment
\* record and writes one audit row whose status is "unknown".
C21_AuditStatusUnknown ==
    \A c \in Calls :
        ProcessingHandled(calls[c]) =>
            /\ calls[c].result.success
            /\ Ops(calls[c]) = <<"logPaymentEvent", "savePaymentEvent", "markEventProcessed">>
            /\ \A row \in AuditRowsOf(calls[c]) : row.event_data.status = "unknown"

\* C21 amended: a payment.processing event does not fail, looks up and writes
\* no payment record, and writes one audit row whose status is the status the
\* event carries, or "unknown" when the event carries none.
C21_AuditStatusOfEvent ==
    \A c \in Calls :
        LET call == calls[c]
        IN  /\ (Started(call) /\ call.event.type = "payment.processing") =>
                  \A i \in 1..Len(call.trace) :
                      call.trace[i].op \notin {"findPayment", "writePayment", "getPaymentDetails"}
            /\ ProcessingHandled(call) =>
                  /\ call.result.success /\ LogRow(call).processed
                  /\ Ops(call) = <<"logPaymentEvent", "savePaymentEvent", "markEventProcessed">>
                  /\ \E row \in AuditRowsOf(call) :
                        /\ row.event_data.status =
                              IF call.event.obj.status = NoValue THEN "unknown"
                              ELSE call.event.obj.status
                        /\ row.event_data.payment_id = "pay_1" /\ row.processed
                  /\ Cardinality({i \in Rows("savePaymentEvent") :
                                     payment_events[i].event_type = "payment.processing"})
                        = Cardinality({d \in Calls :
                                          /\ calls[d].event.type = "payment.processing"
                                          /\ Succeeded(calls[d], "savePaymentEvent") = 1})

\* C21 witness: a payment.processing event that carries a status and one that
\* carries none have both been handled; their audit rows hold "processing" and
\* "unknown", and there is no payment record.
C21_Witness ==
    \E c, d \in Calls :
        /\ ProcessingHandled(calls[c]) /\ calls[c].event.obj.status = "processing"
        /\ ProcessingHandled(calls[d]) /\ calls[d].event.obj.status = NoValue
        /\ \E row \in AuditRowsOf(calls[c]) : row.event_data.status = "processing"
        /\ \E row \in AuditRowsOf(calls[d]) : row.event_data.status = "unknown"
        /\ payments = <<>>

-----------------------------------------------------------------------------
(* C22: where subscription records come from *)

\* C22: in every step, of handleWebhook or of another writer, the subscription
\* records keep their number or grow by one and the records already there keep
\* their place and provider id.  In a step of handleWebhook a new record is the
\* insert of a subscription.active event with a resolved customer (whose row id
\* and user id it carries), and the customer records do not change.
C22_OnlyActiveCreates ==
    [][/\ Len(subscriptions') \in {Len(subscriptions), Len(subscriptions) + 1}
       /\ \A i \in 1..Len(subscriptions) :
             subscriptions'[i].dodo_subscription_id = subscriptions[i].dodo_subscription_id
       /\ WebhookStep => customers' = customers
       /\ (WebhookStep /\ Len(subscriptions') > Len(subscriptions)) =>
             /\ Len(subscriptions') = Len(subscriptions) + 1
             /\ \E c \in Calls :
                   /\ At(c, "saveSubscription")
                   /\ calls[c].event.type = "subscription.active"
                   /\ calls[c].customer # <<>>
                   /\ calls[c].customer[1] \in customers
                   /\ calls[c].customer[1].dodo_customer_id = calls[c].event.obj.customer
                   /\ calls'[c].pc = "markEventProcessed"
                   /\ LET row == subscriptions'[Len(subscriptions')]
                      IN  /\ row.dodo_subscription_id = calls[c].event.obj.id
                          /\ row.customer_id = calls[c].customer[1].id
                          /\ row.user_id = calls[c].customer[1].user_id]_vars

\* C22 witness: an update event for a provider id without a record has been
\* handled and has failed, a subscription.active event for a known customer has
\* been handled, and the one subscription record is the one of the latter; no
\* other writer has added a customer.
C22_Witness ==
    /\ Len(subscriptions) = 1 /\ customers = {KnownCustomer}
    /\ subscriptions[1].customer_id = KnownCustomer.id
    /\ \E c, d \in Calls :
          /\ Done(calls[c]) /\ calls[c].event.type = "subscription.cancelled"
          /\ Succeeded(calls[c], "updateSubscription") = 0 /\ ~Faulted(calls[c])
          /\ Done(calls[d]) /\ calls[d].event.type = "subscription.active"
          /\ Succeeded(calls[d], "saveSubscription") = 1
          /\ subscriptions[1].dodo_subscription_id = calls[d].event.obj.id

-----------------------------------------------------------------------------
(* C23: what the update handlers write *)

\* this step is the updateSubscription call of invocation c
UpdateStepOf(c) == At(c, "updateSubscription") /\ calls'[c].pc # "updateSubscription"

\* C23: the updateSubscription call of an on_hold, failed or expired event
\* changes the status of the records with the event's provider id and nothing
\* else of them; that of a cancelled event changes their status to "cancelled"
\* and their cancel_at_period_end to true and nothing else; the call of any
\* handler leaves every record of another provider id as it was, adds and
\* removes none, and changes nothing when it fails.
C23_UpdateFrame ==
    [][\A c \in Calls :
          UpdateStepOf(c) =>
             LET type == calls[c].event.type
                 id   == calls[c].event.obj.id
                 ok   == LastCall(calls'[c]).ok
                 statusOnly == CASE type = "subscription.on_hold" -> "on_hold"
                                 [] type = "subscription.failed" -> "failed"
                                 [] type = "subscription.expired" -> "expired"
                                 [] OTHER -> NoValue
             IN  /\ Len(subscriptions') = Len(subscriptions)
                 /\ \A i \in 1..Len(subscriptions) :
                       subscriptions[i].dodo_subscription_id # id =>
                          subscriptions'[i] = subscriptions[i]
                 /\ ~ok => subscriptions' = subscriptions
                 /\ (ok /\ statusOnly # NoValue) =>
                       \A i \in Matching(subscriptions, "dodo_subscription_id", id) :
                          subscriptions'[i] =
                             [subscriptions[i] EXCEPT !.status = statusOnly]
                 /\ (ok /\ type = "subscription.cancelled") =>
                       \A i \in Matching(subscriptions, "dodo_subscription_id", id) :
                          subscriptions'[i] =
                             [subscriptions[i] EXCEPT !.status = "cancelled",
                                                      !.cancel_at_period_end = TRUE]]_vars

\* C23 witness: an on_hold and a cancelled event for sub_1 have been processed;
\* its record is cancelled with the flag set and with the period bounds,
\* metadata and customer it had, and the record of sub_2 is as it was.
C23_Witness ==
    /\ \E c, d \in Calls :
          /\ Done(calls[c]) /\ calls[c].event.type = "subscription.on_hold"
          /\ Succeeded(calls[c], "updateSubscription") = 1
          /\ Done(calls[d]) /\ calls[d].event.type = "subscription.cancelled"
          /\ Succeeded(calls[d], "updateSubscription") = 1
    /\ subscriptions[1] = [ExistingSubscription("sub_1", "cancelled")
                              EXCEPT !.cancel_at_period_end = TRUE]
    /\ ~ExistingSubscription("sub_1", "cancelled").cancel_at_period_end
    /\ subscriptions[2] = ExistingSubscription("sub_2", "active")

-----------------------------------------------------------------------------
(* C24: update events for a subscription that has no record *)

\* invocation c has ended on an updateSubscription call that was served and
\* reported an error
UpdateRefused(call) ==
    /\ Done(call) /\ call.trace # <<>>
    /\ LastCall(call).op = "updateSubscription"
    /\ ~LastCall(call).ok /\ ~LastCall(call).fault

\* C24: when the updateSubscription call of an on_hold, renewed, plan_changed,
\* cancelled, failed or expired event finds no record of the event's provider
\* id, the invocation ends there with success false and an error, the
\* subscription records are unchanged, and handleWebhook leaves the event's
\* log record unprocessed then and at every later time.
C24_UpdateWithoutRecordFails ==
    [][\A c \in Calls :
          /\ (/\ UpdateStepOf(c)
              /\ ~LastCall(calls'[c]).fault
              /\ Matching(subscriptions, "dodo_subscription_id", calls[c].event.obj.id) = {}) =>
                 /\ calls[c].event.type \in SubscriptionUpdateTypes
                 /\ UpdateRefused(calls'[c])
                 /\ calls'[c].result.returned /\ ~calls'[c].result.success
                 /\ calls'[c].result.error = "Failed to update subscription"
                 /\ subscriptions' = subscriptions
          /\ UpdateRefused(calls'[c]) =>
                 /\ LeftUnprocessed(calls[c])'
                 /\ Succeeded(calls'[c], "markEventProcessed") = 0]_vars

\* C24 witness: all of one run, a renewed and a cancelled event for sub_1 have
\* been refused for want of a record; there is still no subscription record
\* and both log records are unprocessed.
C24_Witness ==
    /\ subscriptions = <<>>
    /\ \E c, d \in Calls :
          /\ UpdateRefused(calls[c]) /\ calls[c].event.type = "subscription.renewed"
          /\ UpdateRefused(calls[d]) /\ calls[d].event.type = "subscription.cancelled"
          /\ ~calls[c].result.success /\ ~calls[d].result.success
          /\ ~LogRow(calls[c]).processed /\ ~LogRow(calls[d]).processed

-----------------------------------------------------------------------------
(* C25: the order of the store calls of one invocation *)

\* C25: within every invocation the event store insert precedes every call of
\* the handler, the mark-processed update follows the last of them, and when
\* the insert fails the invocation makes no further call and the failing step
\* changes no table.
C25_LogThenHandleThenMark ==
    [][LET \* the calls of an invocation are in the order of handleWebhook: the
           \* insert into the event store first and once, then the calls of the
           \* handler, then the mark-processed update last and once; a failed
           \* insert is the only call
           InOrder(call, events) ==
               LET t == call.trace
                   IsHandlerOp(op) ==
                       op \in {"getCustomerByDodoId", "saveSubscription", "updateSubscription",
                               "getPaymentDetails", "findPayment", "writePayment", "savePaymentEvent"}
               IN  /\ t # <<>> => t[1].op = "logPaymentEvent"
                   /\ \A i \in 2..Len(t) : t[i].op # "logPaymentEvent"
                   /\ \A i \in 1..Len(t) :
                         /\ IsHandlerOp(t[i].op) \/ t[i].op \in {"logPaymentEvent", "markEventProcessed"}
                         /\ t[i].op = "markEventProcessed" => i = Len(t) /\ Done(call)
                         /\ IsHandlerOp(t[i].op) =>
                               /\ t[1].ok /\ call.eventLogId # 0
                               /\ events[call.eventLogId].event_data = call.event
                   /\ (t # <<>> /\ ~t[1].ok) =>
                         /\ Len(t) = 1 /\ Done(call) /\ call.eventLogId = 0
                         /\ call.result = Failure("Failed to log event")
                   /\ call.pc \notin {"idle", "done", "logPaymentEvent"} => (t # <<>> /\ t[1].ok)
       IN  \A c \in Calls :
              /\ InOrder(calls'[c], payment_events')
              /\ (/\ At(c, "logPaymentEvent") /\ calls'[c].pc # "logPaymentEvent"
                  /\ ~LastCall(calls'[c]).ok) =>
                     UNCHANGED <<tables, payment_events>>]_vars

\* C25 witness: one invocation has made, in this order, the insert, the three
\* calls of the payment status handler and the mark-processed update; another
\* one's insert has failed and it has made no other call.
C25_Witness ==
    \E c, d \in Calls :
        /\ Ops(calls[c]) = <<"logPaymentEvent", "findPayment", "writePayment",
                             "savePaymentEvent", "markEventProcessed">>
        /\ ~Faulted(calls[c]) /\ calls[c].result.success
        /\ Done(calls[d]) /\ Ops(calls[d]) = <<"logPaymentEvent">>
        /\ ~calls[d].trace[1].ok /\ ~calls[d].result.success

-----------------------------------------------------------------------------
(* C26: the life of an event store record *)

\* C26 as stated: every record handleWebhook adds to the event store is created
\* with processed = false and retry_count = 0, and handleWebhook only ever
\* marks a record.
C26_AllBornUnprocessed ==
    [][WebhookStep =>
          /\ Len(payment_events') >= Len(payment_events)
          /\ \A i \in 1..Len(payment_events) :
                \/ payment_events'[i] = payment_events[i]
                \/ payment_events'[i] =
                      [payment_events[i] EXCEPT !.processed = TRUE, !.processed_at = Now]
          /\ \A i \in (Len(payment_events) + 1)..Len(payment_events') :
                ~payment_events'[i].processed /\ payment_events'[i].retry_count = 0]_vars

\* C26 amended: every record logPaymentEvent inserts is created with
\* processed = false, no processed_at and retry_count = 0, and every audit
\* record savePaymentEvent inserts is created with processed = true, a
\* processed_at and retry_count = 0.  No step, of handleWebhook or of another
\* writer, removes a record, sets processed back to false or changes the
\* event_type, event_data, provider event id or retry_count of a record.  A
\* step of handleWebhook that changes a record is the last step of the
\* invocation that logged the record, and sets its processed and processed_at:
\* handleWebhook changes a log record at most once and an audit record never.
C26_EventStoreLifecycle ==
    [][LET Unmarked(row) == [row EXCEPT !.processed = FALSE, !.processed_at = NoValue]
           changed == {i \in 1..Len(payment_events) : payment_events'[i] # payment_events[i]}
       IN  /\ Len(payment_events') \in {Len(payment_events), Len(payment_events) + 1}
           /\ Cardinality(changed) <= 1
           /\ \A i \in 1..Len(payment_events) :
                 /\ Unmarked(payment_events'[i]) = Unmarked(payment_events[i])
                 /\ payment_events[i].processed => payment_events'[i].processed
           /\ \A i \in (Len(payment_events) + 1)..Len(payment_events') :
                 LET row == payment_events'[i]
                 IN  /\ row.retry_count = 0
                     /\ row.by = "savePaymentEvent" => row.processed /\ row.processed_at = Now
                     /\ row.by = "logPaymentEvent" => ~row.processed /\ row.processed_at = NoValue
                     /\ WebhookStep => row.by \in {"logPaymentEvent", "savePaymentEvent"}
           /\ \A i \in 1..Len(payment_events') :
                 payment_events'[i].processed <=> (payment_events'[i].processed_at # NoValue)
           /\ WebhookStep =>
                 \A i \in changed :
                    /\ payment_events[i].by = "logPaymentEvent"
                    /\ payment_events'[i] =
                          [payment_events[i] EXCEPT !.processed = TRUE, !.processed_at = Now]
                    /\ \E c \in Calls :
                          /\ At(c, "markEventProcessed") /\ calls[c].eventLogId = i
                          /\ Done(calls'[c])
                          /\ Succeeded(calls'[c], "markEventProcessed") = 1]_vars

\* C26 witness: the event store holds a log record that has been marked, a log
\* record of a failed invocation that has not, and an audit record that was
\* created processed.
C26_Witness ==
    \E c, d \in Calls :
        /\ Done(calls[c]) /\ calls[c].result.success
        /\ LogRow(calls[c]).processed /\ LogRow(calls[c]).processed_at = Now
        /\ LogRow(calls[c]).retry_count = 0 /\ LogRow(calls[c]).event_data = calls[c].event
        /\ Succeeded(calls[c], "savePaymentEvent") = 1
        /\ \E i \in Rows("savePaymentEvent") : payment_events[i].processed
        /\ Done(calls[d]) /\ calls[d].eventLogId # 0 /\ ~calls[d].result.success
        /\ ~LogRow(calls[d]).processed /\ LogRow(calls[d]).processed_at = NoValue

-----------------------------------------------------------------------------
(* C27: requests without a signature when a secret is configured *)

\* C27: with a secret configured, the entry of a request whose signature is
\* absent or empty leaves the invocation exactly where the entry of the same
\* body correctly signed leaves it (parsed and about to log, or failed on the
\* parse) and never rejects it for its signature; and two finished invocations
\* of the same body, one unsigned and one correctly signed, none with a failed
\* store call, have made the same calls with the same outcomes and returned the
\* same result.
C27_UnsignedLikeSigned ==
    [][LET Unsigned(signature) == ~signature.present \/ signature.text = <<>>
           Outcome(call) == [call EXCEPT !.signature = NoSignature]
       IN  /\ webhookSecret # NoValue
           /\ \A c \in Calls :
                 (At(c, "idle") /\ Started(calls'[c]) /\ Unsigned(calls'[c].signature)) =>
                    /\ Outcome(calls'[c]) =
                          Outcome(handleWebhookEntry(
                                      webhookSecret, calls[c], calls'[c].body,
                                      CorrectSignature(webhookSecret, calls'[c].body)))
                    /\ calls'[c].result # Failure("Invalid signature")
                    /\ JsonParses(calls'[c].body) => calls'[c].pc = "logPaymentEvent"
           /\ \A c, d \in Calls :
                 (/\ Done(calls'[c]) /\ Done(calls'[d])
                  /\ ~Faulted(calls'[c]) /\ ~Faulted(calls'[d])
                  /\ calls'[c].body = calls'[d].body
                  /\ Unsigned(calls'[c].signature)
                  /\ calls'[d].signature = CorrectSignature(webhookSecret, calls'[d].body)) =>
                    /\ calls'[c].trace = calls'[d].trace
                    /\ calls'[c].result = calls'[d].result
                    /\ calls'[c].eventLogId # 0 =>
                          payment_events'[calls'[c].eventLogId]
                             = payment_events'[calls'[d].eventLogId]]_vars

\* C27 witness: with a secret configured, the same unhandled event has come
\* once with an empty signature and once correctly signed; both invocations
\* have logged it, marked it processed and returned success.
C27_Witness ==
    /\ webhookSecret # NoValue
    /\ \E c, d \in Calls :
          /\ Done(calls[c]) /\ Done(calls[d]) /\ calls[c].body = calls[d].body
          /\ calls[c].signature = SignatureOf(<<>>)
          /\ calls[d].signature = CorrectSignature(webhookSecret, calls[d].body)
          /\ calls[c].event.type = "invoice.created"
          /\ calls[c].result.success /\ calls[d].result.success
          /\ Ops(calls[c]) = <<"logPaymentEvent", "markEventProcessed">>
          /\ LogRow(calls[c]).processed /\ LogRow(calls[d]).processed

-----------------------------------------------------------------------------
(* C28: the payment write and the audit insert are two store calls *)

\* the invocation has ended on a failed audit insert
AuditFailed(call) ==
    /\ Done(call) /\ call.trace # <<>>
    /\ LastCall(call).op = "savePaymentEvent" /\ ~LastCall(call).ok

\* C28: the audit insert of a payment event comes after the payment write, and
\* when it fails the step changes no payment record, handleWebhook returns
\* success false with the error and never marks the log record processed;
\* afterwards the payment record holds the status of the event (as long as no
\* other invocation has written it) although the invocation has failed.
C28_WriteSurvivesAuditFailure ==
    [][\A c \in Calls :
          /\ (At(c, "savePaymentEvent") /\ AuditFailed(calls'[c])) =>
                /\ payments' = payments
                /\ payment_events' = payment_events
                /\ calls'[c].result = Failure("Failed to save payment event")
          /\ (Started(calls'[c]) /\ HandlerOf(calls'[c].event.type) = "processPaymentWebhook"
              /\ PaymentEntry(calls'[c].event.type) # "savePaymentEvent") =>
                \A i \in 1..Len(calls'[c].trace) :
                    calls'[c].trace[i].op = "savePaymentEvent" =>
                       /\ i > 1
                       /\ calls'[c].trace[i - 1].op = "writePayment"
                       /\ calls'[c].trace[i - 1].ok
          /\ AuditFailed(calls'[c]) =>
                /\ ~calls'[c].result.success
                /\ LeftUnprocessed(calls[c])'
                /\ (\A d \in Calls \ {c} :
                       \/ ~Started(calls'[d])
                       \/ PaymentIdOf(calls'[d].event.obj) # PaymentIdOf(calls'[c].event.obj)
                       \/ Succeeded(calls'[d], "writePayment") = 0) =>
                      /\ PaymentRows(payments', PaymentIdOf(calls'[c].event.obj)) # {}
                      /\ \A row \in PaymentRows(payments', PaymentIdOf(calls'[c].event.obj)) :
                            row.status = PaymentStatusOf(calls'[c].event.type)]_vars

\* C28 witness: a payment.failed event has written the payment of pay_1 as
\* failed, its audit insert has failed and the invocation has returned
\* success false; the payment record is there with status failed, there is no
\* audit record and the log record is unprocessed.
C28_Witness ==
    \E c \in Calls :
        /\ AuditFailed(calls[c]) /\ calls[c].event.type = "payment.failed"
        /\ Succeeded(calls[c], "writePayment") = 1
        /\ ~calls[c].result.success /\ ~LogRow(calls[c]).processed
        /\ \E row \in PaymentRows(payments, "pay_1") : row.status = "failed"
        /\ Rows("savePaymentEvent") = {}

-----------------------------------------------------------------------------
(* C29: no transition guard on the status of a subscription *)

\* C29: whether the updateSubscription call of an on_hold, renewed,
\* plan_changed, cancelled, failed or expired event succeeds depends on the
\* call being served, on the record existing and on the status asked for being
\* one the column takes (a plan_changed event with a null status is refused),
\* never on the record's current status; and when it succeeds the record's
\* status is the one the event asks for, whatever it was before, so that the
\* status is always the one of the last update applied.
C29_NoTransitionGuard ==
    [][\A c \in Calls :
          UpdateStepOf(c) =>
             LET event == calls[c].event
                 hit   == Matching(subscriptions, "dodo_subscription_id", event.obj.id)
                 asked == CASE event.type = "subscription.on_hold" -> "on_hold"
                            [] event.type = "subscription.renewed" -> "active"
                            [] event.type = "subscription.plan_changed" -> event.obj.status
                            [] event.type = "subscription.cancelled" -> "cancelled"
                            [] event.type = "subscription.failed" -> "failed"
                            [] OTHER -> "expired"
             IN  /\ event.type \in SubscriptionUpdateTypes
                 /\ LastCall(calls'[c]).ok <=>
                       /\ ~LastCall(calls'[c]).fault
                       /\ Cardinality(hit) = 1
                       /\ SubscriptionUpdateAllowed([status |-> asked])
                 /\ LastCall(calls'[c]).ok =>
                       /\ calls'[c].pc = "markEventProcessed"
                       /\ \A i \in hit : subscriptions'[i].status = asked]_vars

\* C29 witness: an expired event and a renewed event for sub_1 have both been
\* processed with success and the record is active: the renewal came last and
\* was applied to an expired record.
C29_Witness ==
    /\ \E c, d \in Calls :
          /\ Done(calls[c]) /\ calls[c].event.type = "subscription.expired"
          /\ calls[c].result.success
          /\ Done(calls[d]) /\ calls[d].event.type = "subscription.renewed"
          /\ calls[d].result.success
    /\ subscriptions[1].dodo_subscription_id = "sub_1"
    /\ subscriptions[1].status = "active"

-----------------------------------------------------------------------------
(* C30: handleWebhook returns *)

\* C30 as stated, its last part: every invocation in which a downstream call
\* has failed ends with success false.
C30_EveryFailureReported ==
    \A c \in Calls :
        (Done(calls[c]) /\ \E i \in 1..Len(calls[c].trace) : ~calls[c].trace[i].ok) =>
            (~calls[c].result.success /\ calls[c].result.error # NoValue)

\* C30 amended: when every awaited call eventually returns or fails, every
\* invocation of handleWebhook terminates (the invocations never return to
\* running once done, so: again and again none is running), with a result
\* whose success is a boolean; a failure that handleSubscriptionActive does not
\* catch itself ends the invocation at once with success false and an error
\* message, while a failure it does catch leaves the invocation running
\* towards a result.  (While an invocation runs its caller holds nothing;
\* afterwards an object with a boolean success and an error message exactly
\* when success is false.)
C30_TerminatesWithResult ==
    /\ [](LET CaughtLocally(call, i) ==
                  /\ call.event.type = "subscription.active"
                  /\ call.trace[i].op \in {"getCustomerByDodoId", "saveSubscription"}
              ResultShape(call) ==
                  /\ ~Done(call) => call.result = NoResult
                  /\ Done(call) =>
                        /\ call.result.returned
                        /\ call.result.success \in BOOLEAN
                        /\ call.result.success <=> (call.result.error = NoValue)
          IN  \A c \in Calls :
                 /\ ResultShape(calls[c])
                 /\ \A i \in 1..Len(calls[c].trace) :
                       (~calls[c].trace[i].ok /\ ~CaughtLocally(calls[c], i)) =>
                          /\ Done(calls[c]) /\ i = Len(calls[c].trace)
                          /\ ~calls[c].result.success /\ calls[c].result.error # NoValue)
    /\ [][\A c \in Calls : Done(calls[c]) => calls'[c] = calls[c]]_vars
    /\ []<>(\A c \in Calls : ~Started(calls[c]) \/ Done(calls[c]))

\* C30 witness: one invocation has ended with success false on a failed
\* update, and another has ended with success true although the insert of
\* handleSubscriptionActive failed.
C30_Witness ==
    \E c, d \in Calls :
        /\ UpdateRefused(calls[c])
        /\ calls[c].result = Failure("Failed to update subscription")
        /\ Done(calls[d]) /\ calls[d].event.type = "subscription.active"
        /\ \E i \in 1..Len(calls[d].trace) :
              calls[d].trace[i].op = "saveSubscription" /\ ~calls[d].trace[i].ok
        /\ calls[d].result = Success("Error processing subscription activation")

=============================================================================
